---- MODULE Spec2Model ----
(***************************************************************************)
(* Model of the PhoenixNAP cloud-provider load-balancer coordinator        *)
(* (phoenixnap/loadbalancers.go): the reconcile operations GetLoadBalancer,*)
(* EnsureLoadBalancer, UpdateLoadBalancer, EnsureLoadBalancerDeleted, the  *)
(* tag helper ensureTags and the reaper loop started by newLoadBalancers,  *)
(* running against the remote IP-block / tag / public-network store and    *)
(* the Kubernetes service objects.                                         *)
(***************************************************************************)
EXTENDS Integers, Sequences, FiniteSets, TLC

\* ------------------------------------------------------------------------
\* Bounds of the model
\* ------------------------------------------------------------------------

\* number of IP blocks the provider account can hold at the same time
MaxBlocks == 2

\* the longest provider ID, in pieces
MaxIDLen == 3

\* ------------------------------------------------------------------------
\* Program constants (phoenixnap/constants.go)
\* ------------------------------------------------------------------------

pnapTag == "usage"

pnapValue == "cloud-provider-phoenixnap-auto"

deleteTag == "delete"

serviceNamespaceTag == "serviceNamespace"

serviceNameTag == "serviceName"

serviceBlockCidr == 29

publicNetworkCaps == "PUBLIC_NETWORK"

publicNetwork == "public network"

\* ------------------------------------------------------------------------
\* The coordinator (struct loadBalancers) and its surroundings
\* ------------------------------------------------------------------------

\* l.clusterID: UID of the kube-system namespace
clusterID == "c1"

\* l.network: host part of the kube-vip://<network> configuration
network == "net1"

\* the services the controller framework reconciles: (namespace, name)
Services == { [ns |-> "ns1", name |-> "svc-a"], [ns |-> "ns1", name |-> "svc-b"] }

\* the nodes handed to the reconcile calls; "match" is the outcome of the
\* configured label selector on the node's labels
Nodes == { [name |-> "n1", providerID |-> "phoenixnap://s1", match |-> TRUE],
           [name |-> "n2", providerID |-> "", match |-> TRUE],
           [name |-> "n3", providerID |-> "", match |-> FALSE] }

\* the node lists handed to the reconcile calls
NodeLists == { { n \in Nodes : n.name # "n2" }, Nodes }

\* identifiers the provider hands out for blocks
BlockIds == 1 .. MaxBlocks

\* ------------------------------------------------------------------------
\* net/netip: addresses are dotted quads, written here as 4-tuples of octets
\* ------------------------------------------------------------------------

\* the empty string (no address recorded)
NoIP == << >>

\* a string netip.ParseAddr fails on
BadIP == <<999>>

\* the zero netip.Addr that Next returns after the last address; its String()
\* is "invalid IP", which does not parse
InvalidAddr == <<-1>>

\* netip.ParseAddr: ok iff the string is a dotted quad of octets
ParseAddrOk(s) == Len(s) = 4 /\ \A i \in 1 .. 4 : s[i] \in 0 .. 255

\* AddrNext with an off-by-one step: the address after the following one
AddrNextSkipsOne(a) ==
    IF a = InvalidAddr THEN InvalidAddr
    ELSE IF a[4] < 254 THEN <<a[1], a[2], a[3], a[4] + 2>>
    ELSE InvalidAddr

\* AddrNext that returns the address it is given
AddrNextStays(a) == a

\* netip.Addr.Next: the following address, the zero Addr after the last one
AddrNext(a) ==
    IF a = InvalidAddr THEN InvalidAddr
    ELSE IF a[4] < 255 THEN <<a[1], a[2], a[3], a[4] + 1>>
    ELSE IF a[3] < 255 THEN <<a[1], a[2], a[3] + 1, 0>>
    ELSE IF a[2] < 255 THEN <<a[1], a[2] + 1, 0, 0>>
    ELSE IF a[1] < 255 THEN <<a[1] + 1, 0, 0, 0>>
    ELSE InvalidAddr

Pow2(n) == IF n = 0 THEN 1 ELSE IF n = 1 THEN 2 ELSE IF n = 2 THEN 4
           ELSE IF n = 3 THEN 8 ELSE IF n = 4 THEN 16 ELSE IF n = 5 THEN 32
           ELSE IF n = 6 THEN 64 ELSE IF n = 7 THEN 128 ELSE 256

\* number of prefix bits that fall into octet i (1..4) of a prefix of length bits
OctetBits(bits, i) ==
    LET k == bits - 8 * (i - 1) IN IF k < 0 THEN 0 ELSE IF k > 8 THEN 8 ELSE k

\* netip.Prefix.Contains: ip lies in the prefix (compares the masked bits)
PrefixContains(p, ip) ==
    \A i \in 1 .. 4 :
        (ip[i] \div Pow2(8 - OctetBits(p.bits, i)))
            = (p.addr[i] \div Pow2(8 - OctetBits(p.bits, i)))

\* the CIDR the provider allocates for block id: consecutive /29 ranges
\* starting at 10.0.0.0/29
CidrOf(id) == [addr |-> <<10, 0, 0, 8 * (id - 1)>>, bits |-> serviceBlockCidr]

\* netip.ParsePrefix: ok iff the address parses and the length is 0..32
ParsePrefixOk(c) == ParseAddrOk(c.addr) /\ c.bits \in 0 .. 32

\* ------------------------------------------------------------------------
\* State
\* ------------------------------------------------------------------------

VARIABLES
    blocks,        \* remote IP blocks: block id -> block (ipapi.IpBlock)
    declaredTags,  \* remote tag definitions: set of declared tag names
    svcIP,         \* Kubernetes: service -> Spec.LoadBalancerIP
    last,          \* the last operation: its arguments, result and remote writes
    lb,            \* the coordinator newLoadBalancers returned, and its reaper
    inflight,      \* EnsureLoadBalancer calls that have listed the blocks of
                   \* their service and not yet gone on: <<service, the
                   \* Spec.LoadBalancerIP of the object they were given>>
    servers,       \* remote servers: server id -> Status (bmcapi.Server)
    lastInst,      \* the last call of the instances interface and its result
    sweep          \* the reaper's pass under way: the marked blocks in the order
                   \* the list call returned them, their status as listed,
                   \* and the position of the loop

vars == <<blocks, declaredTags, svcIP, last, lb, inflight, servers, lastInst, sweep>>

NoSvc == [ns |-> "", name |-> ""]

\* one remote write (or announcer call) issued by an operation
CallRecord(c, svc, id, ip, tag, nodes, ok, during) ==
    [call |-> c, svc |-> svc, id |-> id, ip |-> ip, tag |-> tag, nodes |-> nodes,
     ok |-> ok, during |-> during]

\* a call of the provider API issued by a reconcile operation
Call(c, id, ip, tag, nodes, ok) == CallRecord(c, NoSvc, id, ip, tag, nodes, ok, 0)

\* a call of the provider API issued by the reaper while it handles a block
CallDuring(c, id, ip, tag, nodes, ok, during) ==
    CallRecord(c, NoSvc, id, ip, tag, nodes, ok, during)

\* a call that names a service: the update of the service object, or a call
\* of the announcer, which is given the namespace and name of the service
SvcCall(c, svc, ip, nodes, ok) == CallRecord(c, svc, 0, ip, "", nodes, ok, 0)

\* what an operation leaves behind in "last": the operation, the service and
\* the names of the nodes it was called with, its result and its remote writes
OutcomeFor(op, svc, nodes, err, exists, ip, calls) ==
    [op |-> op, svc |-> svc, nodes |-> nodes, err |-> err, exists |-> exists, ip |-> ip,
     calls |-> calls]

\* what an operation that is given no nodes leaves behind
Outcome(op, svc, err, exists, ip, calls) == OutcomeFor(op, svc, {}, err, exists, ip, calls)

\* a remote call an operation sees fail: the call and, for a call issued
\* several times by one operation, which occurrence. An operation is run with
\* the set of the failures it meets.
Failure(c, n) == <<c, n>>

Fails(fail, c) == \E f \in fail : f[1] = c

FailsAt(fail, c, n) == Failure(c, n) \in fail

\* ------------------------------------------------------------------------
\* The remote provider API
\* ------------------------------------------------------------------------

\* Tags with the service name tag filled from the namespace
TagsNameFromNamespace(ns, name) ==
    [t \in {pnapTag, "cluster", serviceNamespaceTag, serviceNameTag} |->
        IF t = pnapTag THEN pnapValue
        ELSE IF t = "cluster" THEN clusterID
        ELSE ns]

\* Tags without the two service tags
TagsNoService(ns, name) ==
    [t \in {pnapTag, "cluster"} |-> IF t = pnapTag THEN pnapValue ELSE clusterID]

\* a tag set: tag name -> value
Tags(ns, name) ==
    [t \in {pnapTag, "cluster", serviceNamespaceTag, serviceNameTag} |->
        IF t = pnapTag THEN pnapValue
        ELSE IF t = "cluster" THEN clusterID
        ELSE IF t = serviceNamespaceTag THEN ns
        ELSE name]

\* IpBlocksPost: the block the provider returns for a create request
NewBlock(id, tags) ==
    [id |-> id, cidr |-> CidrOf(id), tags |-> tags, status |-> "unassigned",
     assignedResourceType |-> "", assignedResourceId |-> ""]

\* IpBlocksGet().Tag(tags): ids of the blocks carrying every name.value of q
IpBlocksGet(store, q) ==
    { b \in DOMAIN store :
        \A t \in DOMAIN q : t \in DOMAIN store[b].tags /\ store[b].tags[t] = q[t] }

\* PublicNetworksNetworkIdIpBlocksPost: the provider accepts the attach of an
\* existing unassigned block
AttachOk(store, net, id) == id \in DOMAIN store /\ store[id].status = "unassigned"

Attached(store, net, id) ==
    [store EXCEPT ![id].status = "assigned",
                  ![id].assignedResourceType = publicNetworkCaps,
                  ![id].assignedResourceId = net]

\* PublicNetworksNetworkIdIpBlocksIpBlockIdDelete: the provider accepts the
\* detach of a block assigned to that network; the block is then "unassigning"
DetachOk(store, net, id) ==
    /\ id \in DOMAIN store
    /\ store[id].status = "assigned"
    /\ store[id].assignedResourceId = net

Detached(store, id) == [store EXCEPT ![id].status = "unassigning"]

\* IpBlocksIpBlockIdDelete: the provider deletes an existing unassigned block
DeleteOk(store, id) == id \in DOMAIN store /\ store[id].status = "unassigned"

Deleted(store, id) == [b \in DOMAIN store \ {id} |-> store[b]]

\* TagsPut that the provider accepts and does not apply
TagsPutIgnored(store, id, tags) == store

\* IpBlocksIpBlockIdTagsPut: replaces the tag set of the block
TagsPut(store, id, tags) == [store EXCEPT ![id].tags = tags]

\* ------------------------------------------------------------------------
\* Helpers of the coordinator
\* ------------------------------------------------------------------------

\* clusterTag: name and value of the cluster tag
clusterTag(id) == <<"cluster", id>>

\* getIPBlocks with the local filter inverted: "active" keeps the blocks that
\* carry the delete tag, "deleted" those that do not
getIPBlocksInvertedFilter(store, namespace, name, active, deleted, failed) ==
    LET q1 == {clusterTag(clusterID)[1], pnapTag}
        q2 == IF name # "" THEN q1 \cup {serviceNameTag} ELSE q1
        q3 == IF namespace # "" THEN q2 \cup {serviceNamespaceTag} ELSE q2
        q  == [t \in q3 |->
                 IF t = pnapTag THEN pnapValue
                 ELSE IF t = clusterTag(clusterID)[1] THEN clusterTag(clusterID)[2]
                 ELSE IF t = serviceNameTag THEN name
                 ELSE namespace]
        listed == IpBlocksGet(store, q)
        isDeleted(b) == deleteTag \in DOMAIN store[b].tags
    IN  [err |-> IF failed THEN "list failed" ELSE "",
         ids |-> IF failed THEN {}
                 ELSE IF active /\ deleted THEN listed
                 ELSE { b \in listed :
                          (isDeleted(b) /\ active) \/ (~isDeleted(b) /\ deleted) }]

\* getIPBlocks that hands back only the first block of the list
getIPBlocksFirstOnly(store, namespace, name, active, deleted, failed) ==
    LET q1 == {clusterTag(clusterID)[1], pnapTag}
        q2 == IF name # "" THEN q1 \cup {serviceNameTag} ELSE q1
        q3 == IF namespace # "" THEN q2 \cup {serviceNamespaceTag} ELSE q2
        q  == [t \in q3 |->
                 IF t = pnapTag THEN pnapValue
                 ELSE IF t = clusterTag(clusterID)[1] THEN clusterTag(clusterID)[2]
                 ELSE IF t = serviceNameTag THEN name
                 ELSE namespace]
        listed == IpBlocksGet(store, q)
        isDeleted(b) == deleteTag \in DOMAIN store[b].tags
        kept == IF active /\ deleted THEN listed
                ELSE { b \in listed :
                         (isDeleted(b) /\ deleted) \/ (~isDeleted(b) /\ active) }
    IN  [err |-> IF failed THEN "list failed" ELSE "",
         ids |-> IF failed THEN {}
                 ELSE { b \in kept : \A c \in kept : b <= c }]

\* getIPBlocks that leaves the cluster tag out of the query
getIPBlocksAnyCluster(store, namespace, name, active, deleted, failed) ==
    LET q1 == {pnapTag}
        q2 == IF name # "" THEN q1 \cup {serviceNameTag} ELSE q1
        q3 == IF namespace # "" THEN q2 \cup {serviceNamespaceTag} ELSE q2
        q  == [t \in q3 |->
                 IF t = pnapTag THEN pnapValue
                 ELSE IF t = serviceNameTag THEN name
                 ELSE namespace]
        listed == IpBlocksGet(store, q)
        isDeleted(b) == deleteTag \in DOMAIN store[b].tags
    IN  [err |-> IF failed THEN "list failed" ELSE "",
         ids |-> IF failed THEN {}
                 ELSE IF active /\ deleted THEN listed
                 ELSE { b \in listed :
                          (isDeleted(b) /\ deleted) \/ (~isDeleted(b) /\ active) }]

\* getIPBlocks without the local filter: every listed block is returned
getIPBlocksUnfiltered(store, namespace, name, active, deleted, failed) ==
    LET q1 == {clusterTag(clusterID)[1], pnapTag}
        q2 == IF name # "" THEN q1 \cup {serviceNameTag} ELSE q1
        q3 == IF namespace # "" THEN q2 \cup {serviceNamespaceTag} ELSE q2
        q  == [t \in q3 |->
                 IF t = pnapTag THEN pnapValue
                 ELSE IF t = clusterTag(clusterID)[1] THEN clusterTag(clusterID)[2]
                 ELSE IF t = serviceNameTag THEN name
                 ELSE namespace]
    IN  [err |-> IF failed THEN "list failed" ELSE "",
         ids |-> IF failed THEN {} ELSE IpBlocksGet(store, q)]

\* getIPBlocks that narrows the query by the name of the service and not by
\* its namespace
getIPBlocksNameOnly(store, namespace, name, active, deleted, failed) ==
    LET q1 == {clusterTag(clusterID)[1], pnapTag}
        q3 == IF name # "" THEN q1 \cup {serviceNameTag} ELSE q1
        q  == [t \in q3 |->
                 IF t = pnapTag THEN pnapValue
                 ELSE IF t = clusterTag(clusterID)[1] THEN clusterTag(clusterID)[2]
                 ELSE name]
        listed == IpBlocksGet(store, q)
        isDeleted(b) == deleteTag \in DOMAIN store[b].tags
    IN  [err |-> IF failed THEN "list failed" ELSE "",
         ids |-> IF failed THEN {}
                 ELSE IF active /\ deleted THEN listed
                 ELSE { b \in listed :
                          (isDeleted(b) /\ deleted) \/ (~isDeleted(b) /\ active) }]

\* getIPBlocks: the cluster's blocks, narrowed to a service when namespace or
\* name is not blank, then filtered locally by the delete tag. The result is
\* the set of block ids; failed says that the remote list call failed.
getIPBlocks(store, namespace, name, active, deleted, failed) ==
    LET q1 == {clusterTag(clusterID)[1], pnapTag}
        q2 == IF name # "" THEN q1 \cup {serviceNameTag} ELSE q1
        q3 == IF namespace # "" THEN q2 \cup {serviceNamespaceTag} ELSE q2
        q  == [t \in q3 |->
                 IF t = pnapTag THEN pnapValue
                 ELSE IF t = clusterTag(clusterID)[1] THEN clusterTag(clusterID)[2]
                 ELSE IF t = serviceNameTag THEN name
                 ELSE namespace]
        listed == IpBlocksGet(store, q)
        isDeleted(b) == deleteTag \in DOMAIN store[b].tags
    IN  [err |-> IF failed THEN "list failed" ELSE "",
         ids |-> IF failed THEN {}
                 ELSE IF active /\ deleted THEN listed
                 ELSE { b \in listed :
                          (isDeleted(b) /\ deleted) \/ (~isDeleted(b) /\ active) }]

\* ensureTags that creates every name handed to it, declared or not
ensureTagsCreatesAll(declared, names, fail) ==
    IF Fails(fail, "TagsGet")
    THEN [err |-> "unable to get all tags", declared |-> declared, calls |-> << >>]
    ELSE [err |-> "",
          declared |-> declared \cup { names[i] : i \in 1 .. Len(names) },
          calls |-> [i \in 1 .. Len(names) |->
                        Call("TagsPost", 0, NoIP, names[i], {}, TRUE)]]

\* ensureTags that goes on with the later names after a creation failed
ensureTagsKeepsGoing(declared, names, fail) ==
    LET toCreate == SelectSeq(names, LAMBDA t : t \notin declared)
        failing == { n \in 1 .. Len(toCreate) : FailsAt(fail, "TagsPost", n) }
    IN  IF Fails(fail, "TagsGet")
        THEN [err |-> "unable to get all tags", declared |-> declared, calls |-> << >>]
        ELSE [err |-> IF failing # {} THEN "unable to create tag" ELSE "",
              declared |-> declared \cup
                            { toCreate[i] : i \in (1 .. Len(toCreate)) \ failing },
              calls |-> [i \in 1 .. Len(toCreate) |->
                            Call("TagsPost", 0, NoIP, toCreate[i], {}, i \notin failing)]]

\* ensureTags: lists the declared tags and creates the missing ones in the
\* order given, stopping at the first creation that fails
ensureTags(declared, names, fail) ==
    LET toCreate == SelectSeq(names, LAMBDA t : t \notin declared)
        failing == { n \in 1 .. Len(toCreate) : FailsAt(fail, "TagsPost", n) }
        stop == IF failing # {}
                THEN (CHOOSE n \in failing : \A m \in failing : n <= m) - 1
                ELSE Len(toCreate)
        created == SubSeq(toCreate, 1, stop)
        issued == SubSeq(toCreate, 1, IF stop < Len(toCreate) THEN stop + 1 ELSE stop)
    IN  IF Fails(fail, "TagsGet")
        THEN [err |-> "unable to get all tags", declared |-> declared, calls |-> << >>]
        ELSE [err |-> IF stop < Len(toCreate) THEN "unable to create tag" ELSE "",
              declared |-> declared \cup { created[i] : i \in 1 .. Len(created) },
              calls |-> [i \in 1 .. Len(issued) |->
                            Call("TagsPost", 0, NoIP, issued[i], {}, i <= stop)]]

\* filterNodes: the nodes whose labels the node selector matches
filterNodes(nodes) == { n \in nodes : n.match }

\* ------------------------------------------------------------------------
\* GetLoadBalancer
\* ------------------------------------------------------------------------

\* GetLoadBalancer that accepts only the "public network" spelling of the
\* assigned resource type
GetLoadBalancerOneSpelling(store, svc, ip, fail) ==
    LET r == getIPBlocks(store, svc.ns, svc.name, TRUE, FALSE, FailsAt(fail, "IpBlocksGet", 1))
        block == store[CHOOSE b \in r.ids : TRUE]
        none == ip = NoIP \/ (ParseAddrOk(ip) /\ r.err = "" /\ Cardinality(r.ids) = 0)
        err == IF ip = NoIP THEN ""
               ELSE IF ~ParseAddrOk(ip) THEN "invalid service IP"
               ELSE IF r.err # "" THEN r.err
               ELSE IF Cardinality(r.ids) = 0 THEN ""
               ELSE IF Cardinality(r.ids) > 1 THEN "more than one block found"
               ELSE IF ~ParsePrefixOk(block.cidr) THEN "invalid CIDR in block"
               ELSE IF ~PrefixContains(block.cidr, ip) THEN "block does not contain IP"
               ELSE IF block.assignedResourceType = ""
                    THEN "block has no assigned resource type"
               ELSE IF block.assignedResourceType # publicNetwork
                    THEN "block is not assigned to a public network"
               ELSE IF block.assignedResourceId = ""
                    THEN "block has no assigned resource ID"
               ELSE IF block.assignedResourceId # network
                    THEN "block is assigned to another network"
               ELSE ""
    IN  [err |-> err,
         exists |-> err = "" /\ ~none,
         ip |-> IF err = "" /\ ~none THEN ip ELSE NoIP]

\* GetLoadBalancer that does not compare the assigned resource ID with the
\* configured network
GetLoadBalancerAnyNetwork(store, svc, ip, fail) ==
    LET r == getIPBlocks(store, svc.ns, svc.name, TRUE, FALSE, FailsAt(fail, "IpBlocksGet", 1))
        block == store[CHOOSE b \in r.ids : TRUE]
        none == ip = NoIP \/ (ParseAddrOk(ip) /\ r.err = "" /\ Cardinality(r.ids) = 0)
        err == IF ip = NoIP THEN ""
               ELSE IF ~ParseAddrOk(ip) THEN "invalid service IP"
               ELSE IF r.err # "" THEN r.err
               ELSE IF Cardinality(r.ids) = 0 THEN ""
               ELSE IF Cardinality(r.ids) > 1 THEN "more than one block found"
               ELSE IF ~ParsePrefixOk(block.cidr) THEN "invalid CIDR in block"
               ELSE IF ~PrefixContains(block.cidr, ip) THEN "block does not contain IP"
               ELSE IF block.assignedResourceType = ""
                    THEN "block has no assigned resource type"
               ELSE IF block.assignedResourceType # publicNetwork
                       /\ block.assignedResourceType # publicNetworkCaps
                    THEN "block is not assigned to a public network"
               ELSE IF block.assignedResourceId = ""
                    THEN "block has no assigned resource ID"
               ELSE ""
    IN  [err |-> err,
         exists |-> err = "" /\ ~none,
         ip |-> IF err = "" /\ ~none THEN ip ELSE NoIP]

\* the result of GetLoadBalancer for service svc whose Spec.LoadBalancerIP is ip
GetLoadBalancer(store, svc, ip, fail) ==
    LET r == getIPBlocks(store, svc.ns, svc.name, TRUE, FALSE, FailsAt(fail, "IpBlocksGet", 1))
        block == store[CHOOSE b \in r.ids : TRUE]
        \* the early "no load balancer" returns: no IP on the service, no block
        none == ip = NoIP \/ (ParseAddrOk(ip) /\ r.err = "" /\ Cardinality(r.ids) = 0)
        err == IF ip = NoIP THEN ""
               ELSE IF ~ParseAddrOk(ip) THEN "invalid service IP"
               ELSE IF r.err # "" THEN r.err
               ELSE IF Cardinality(r.ids) = 0 THEN ""
               ELSE IF Cardinality(r.ids) > 1 THEN "more than one block found"
               ELSE IF ~ParsePrefixOk(block.cidr) THEN "invalid CIDR in block"
               ELSE IF ~PrefixContains(block.cidr, ip) THEN "block does not contain IP"
               ELSE IF block.assignedResourceType = ""
                    THEN "block has no assigned resource type"
               ELSE IF block.assignedResourceType # publicNetwork
                       /\ block.assignedResourceType # publicNetworkCaps
                    THEN "block is not assigned to a public network"
               ELSE IF block.assignedResourceId = ""
                    THEN "block has no assigned resource ID"
               ELSE IF block.assignedResourceId # network
                    THEN "block is assigned to another network"
               ELSE ""
    IN  [err |-> err,
         exists |-> err = "" /\ ~none,
         ip |-> IF err = "" /\ ~none THEN ip ELSE NoIP]

\* ------------------------------------------------------------------------
\* EnsureLoadBalancer
\* ------------------------------------------------------------------------

\* strings.SplitN(ipCidr, "/", 2)[0]: the part before the first "/"; an
\* "a.b.c.d/n" string is the 5-tuple <<a, b, c, d, n>>
SplitIP(ipCidr) == IF Len(ipCidr) > 4 THEN SubSeq(ipCidr, 1, 4) ELSE ipCidr

\* addService that hands the service to the announcer whether or not the
\* service could be re-fetched and updated
addServiceAnnouncesAnyway(svc, objIP, ip, nodes, fail) ==
    LET svcIPCidr == NoIP
        names == { n.name : n \in nodes }
        getFails == objIP = NoIP /\ Fails(fail, "SvcGet")
        updFails == objIP = NoIP /\ ~getFails /\ Fails(fail, "SvcUpdate")
        annFails == Fails(fail, "AddService")
    IN  [err |-> IF getFails THEN "failed to get latest for service"
                 ELSE IF updFails THEN "failed to update service"
                 ELSE IF annFails THEN "announcer failed"
                 ELSE "",
         ipCidr |-> IF getFails \/ updFails THEN NoIP ELSE svcIPCidr,
         written |-> objIP = NoIP /\ ~getFails /\ ~updFails,
         calls |-> (IF objIP = NoIP /\ ~getFails
                    THEN <<SvcCall("SvcUpdate", svc, ip, {}, ~updFails)>> ELSE << >>)
                   \o <<SvcCall("AddService", svc, svcIPCidr, names, ~annFails)>>]

\* addService: records ip on the service object when the service passed in has
\* none, then hands the service to the announcer. Returns svcIPCidr, which the
\* function declares and never assigns.
addService(svc, objIP, ip, nodes, fail) ==
    LET svcIPCidr == NoIP
        names == { n.name : n \in nodes }
        announce(ok) == SvcCall("AddService", svc, svcIPCidr, names, ok)
        update(ok) == SvcCall("SvcUpdate", svc, ip, {}, ok)
        \* the service is re-fetched and updated only when it has no IP
        getFails == objIP = NoIP /\ Fails(fail, "SvcGet")
        updFails == objIP = NoIP /\ ~getFails /\ Fails(fail, "SvcUpdate")
        annFails == ~getFails /\ ~updFails /\ Fails(fail, "AddService")
        err == IF getFails THEN "failed to get latest for service"
               ELSE IF updFails THEN "failed to update service"
               ELSE IF annFails THEN "announcer failed"
               ELSE ""
        c1 == IF objIP = NoIP /\ ~getFails THEN <<update(~updFails)>> ELSE << >>
        c2 == IF ~getFails /\ ~updFails THEN <<announce(~annFails)>> ELSE << >>
    IN  [err |-> err,
         ipCidr |-> IF getFails \/ updFails THEN NoIP ELSE svcIPCidr,
         written |-> objIP = NoIP /\ ~getFails /\ ~updFails,
         calls |-> c1 \o c2]

\* EnsureAttachAndAdd that takes a block assigned to any public network for
\* a block assigned to the configured one
EnsureAttachAndAddAnyNetwork(store, declared, svc, objIP, nodes, fail, block, calls) ==
    LET Fail(e, st, c) == [err |-> e, ip |-> NoIP, blocks |-> st, declared |-> declared,
                           written |-> FALSE, newIP |-> NoIP, calls |-> c]
        needAttach == block.assignedResourceType = ""
        attachOk == ~Fails(fail, "Attach") /\ AttachOk(store, network, block.id)
        store2 == IF needAttach /\ attachOk THEN Attached(store, network, block.id) ELSE store
        calls2 == IF needAttach
                  THEN Append(calls, Call("Attach", block.id, NoIP, "", {}, attachOk))
                  ELSE calls
        foundIP == AddrNext(AddrNext(block.cidr.addr))
        a == addService(svc, objIP, foundIP, filterNodes(nodes), fail)
    IN  IF ~needAttach /\ block.assignedResourceType # publicNetwork
                       /\ block.assignedResourceType # publicNetworkCaps
        THEN Fail("block is not assigned to a public network", store, calls)
        ELSE IF ~needAttach /\ block.assignedResourceId = ""
        THEN Fail("block has an assigned resource type but not ID", store, calls)
        ELSE IF needAttach /\ ~attachOk
        THEN Fail("unable to assign block to network", store, calls2)
        ELSE IF ~ParsePrefixOk(block.cidr)
        THEN Fail("invalid CIDR in block", store2, calls2)
        ELSE [err |-> IF a.err = "" THEN "" ELSE "failed to add service",
              ip |-> IF a.err = "" THEN SplitIP(a.ipCidr) ELSE NoIP,
              blocks |-> store2, declared |-> declared,
              written |-> a.written, newIP |-> foundIP,
              calls |-> calls2 \o a.calls]

\* the second half of EnsureLoadBalancer: the attachment checks and the attach
\* of block, the derivation of the address and addService
EnsureAttachAndAdd(store, declared, svc, objIP, nodes, fail, block, calls) ==
    LET Fail(e, st, c) == [err |-> e, ip |-> NoIP, blocks |-> st, declared |-> declared,
                           written |-> FALSE, newIP |-> NoIP, calls |-> c]
        needAttach == block.assignedResourceType = ""
        attachOk == ~Fails(fail, "Attach") /\ AttachOk(store, network, block.id)
        store2 == IF needAttach /\ attachOk THEN Attached(store, network, block.id) ELSE store
        calls2 == IF needAttach
                  THEN Append(calls, Call("Attach", block.id, NoIP, "", {}, attachOk))
                  ELSE calls
        foundIP == AddrNext(AddrNext(block.cidr.addr))
        a == addService(svc, objIP, foundIP, filterNodes(nodes), fail)
    IN  IF ~needAttach /\ block.assignedResourceType # publicNetwork
                       /\ block.assignedResourceType # publicNetworkCaps
        THEN Fail("block is not assigned to a public network", store, calls)
        ELSE IF ~needAttach /\ block.assignedResourceId = ""
        THEN Fail("block has an assigned resource type but not ID", store, calls)
        ELSE IF ~needAttach /\ block.assignedResourceId # network
        THEN Fail("block is assigned to another network", store, calls)
        ELSE IF needAttach /\ ~attachOk
        THEN Fail("unable to assign block to network", store, calls2)
        ELSE IF ~ParsePrefixOk(block.cidr)
        THEN Fail("invalid CIDR in block", store2, calls2)
        ELSE [err |-> IF a.err = "" THEN "" ELSE "failed to add service",
              ip |-> IF a.err = "" THEN SplitIP(a.ipCidr) ELSE NoIP,
              blocks |-> store2, declared |-> declared,
              written |-> a.written, newIP |-> foundIP,
              calls |-> calls2 \o a.calls]

\* EnsureLoadBalancer for service svc whose Spec.LoadBalancerIP is objIP; newId
\* is the id the provider gives to a block created by this call (0: the
\* provider has no block left)
EnsureLoadBalancer(store, declared, svc, objIP, nodes, fail, newId) ==
    LET g == GetLoadBalancer(store, svc, objIP, fail)
        r == getIPBlocks(store, svc.ns, svc.name, TRUE, FALSE,
                         FailsAt(fail, "IpBlocksGet", 2))
        Fail(e, d, c) == [err |-> e, ip |-> NoIP, blocks |-> store, declared |-> d,
                          written |-> FALSE, newIP |-> NoIP, calls |-> c]
        t == ensureTags(declared,
                        <<pnapTag, clusterTag(clusterID)[1], serviceNamespaceTag,
                          serviceNameTag, deleteTag>>, fail)
        createOk == /\ ~Fails(fail, "IpBlocksPost")
                    /\ newId \in BlockIds
                    /\ newId \notin DOMAIN store
        created == NewBlock(newId, Tags(svc.ns, svc.name))
        post == Call("IpBlocksPost", IF createOk THEN newId ELSE 0, NoIP, "", {}, createOk)
    IN  IF g.err # "" THEN Fail(g.err, declared, << >>)
        ELSE IF g.exists
        THEN [err |-> "", ip |-> g.ip, blocks |-> store, declared |-> declared,
              written |-> FALSE, newIP |-> NoIP, calls |-> << >>]
        ELSE IF r.err # "" THEN Fail(r.err, declared, << >>)
        ELSE IF Cardinality(r.ids) > 1 THEN Fail("more than one block found", declared, << >>)
        ELSE IF Cardinality(r.ids) = 1
        THEN EnsureAttachAndAdd(store, declared, svc, objIP, nodes, fail,
                                store[CHOOSE b \in r.ids : TRUE], << >>)
        ELSE IF t.err # "" THEN Fail("unable to ensure tags exist", t.declared, t.calls)
        ELSE IF ~createOk
        THEN Fail("unable to create new IP block", t.declared, Append(t.calls, post))
        ELSE EnsureAttachAndAdd([b \in DOMAIN store \cup {newId} |->
                                    IF b = newId THEN created ELSE store[b]],
                                t.declared, svc, objIP, nodes, fail, created,
                                Append(t.calls, post))

\* ------------------------------------------------------------------------
\* UpdateLoadBalancer
\* ------------------------------------------------------------------------

\* UpdateLoadBalancer that skips the selected nodes without provider ID and
\* forwards the others
UpdateLoadBalancerSkipsNodes(svc, nodes, fail) ==
    LET sel == { n \in filterNodes(nodes) : n.providerID # "" }
    IN  [err |-> IF Fails(fail, "UpdateService") THEN "announcer failed" ELSE "",
         calls |-> <<SvcCall("UpdateService", svc, NoIP, { n.name : n \in sel },
                             ~Fails(fail, "UpdateService"))>>]

\* UpdateLoadBalancer: fails on the first selected node without provider ID,
\* otherwise forwards the selected nodes to the announcer
UpdateLoadBalancer(svc, nodes, fail) ==
    LET sel == filterNodes(nodes)
        names == { n.name : n \in sel }
        noID == \E n \in sel : n.providerID = ""
    IN  [err |-> IF noID THEN "no provider ID given for node"
                 ELSE IF Fails(fail, "UpdateService") THEN "announcer failed"
                 ELSE "",
         calls |-> IF noID THEN << >>
                   ELSE <<SvcCall("UpdateService", svc, NoIP, names,
                                  ~Fails(fail, "UpdateService"))>>]

\* ------------------------------------------------------------------------
\* EnsureLoadBalancerDeleted
\* ------------------------------------------------------------------------

\* DeleteTagRequest that drops the usage tag along with the service tags
DeleteTagRequestDropsUsage(tags) ==
    [t \in (DOMAIN tags \ {serviceNameTag, serviceNamespaceTag, pnapTag}) \cup {deleteTag} |->
        IF t = deleteTag THEN "true" ELSE tags[t]]

\* DeleteTagRequest that sends the tags back as they are
DeleteTagRequestUnchanged(tags) == tags

\* the tag request EnsureLoadBalancerDeleted builds from the tags of the
\* block: every tag but the two service tags, plus delete=true
DeleteTagRequest(tags) ==
    [t \in (DOMAIN tags \ {serviceNameTag, serviceNamespaceTag}) \cup {deleteTag} |->
        IF t = deleteTag THEN "true" ELSE tags[t]]

\* EnsureLoadBalancerDeleted that deletes the active blocks of the service on
\* the spot instead of marking them
EnsureLoadBalancerDeletedSync(store, svc, fail) ==
    LET r == getIPBlocks(store, svc.ns, svc.name, TRUE, FALSE, FALSE)
    IN  [err |-> "",
         blocks |-> [b \in DOMAIN store \ r.ids |-> store[b]],
         cleared |-> TRUE,
         calls |-> IF r.ids = {} THEN << >>
                   ELSE <<Call("Delete", CHOOSE b \in r.ids : TRUE, NoIP, "", {}, TRUE)>>]

\* EnsureLoadBalancerDeleted that marks every active block of the service,
\* however many there are
EnsureLoadBalancerDeletedMarksAll(store, svc, fail) ==
    LET r == getIPBlocks(store, svc.ns, svc.name, TRUE, FALSE, FALSE)
    IN  [err |-> "",
         blocks |-> [b \in DOMAIN store |->
                        IF b \in r.ids
                        THEN [store[b] EXCEPT !.tags = DeleteTagRequest(store[b].tags)]
                        ELSE store[b]],
         cleared |-> TRUE,
         calls |-> << >>]

\* EnsureLoadBalancerDeleted for service svc
EnsureLoadBalancerDeleted(store, svc, fail) ==
    LET getOk == ~Fails(fail, "SvcGet")
        updOk == ~Fails(fail, "SvcUpdate")
        c1 == IF getOk THEN <<SvcCall("SvcUpdate", svc, NoIP, {}, updOk)>> ELSE << >>
        cleared == getOk /\ updOk
        r == getIPBlocks(store, svc.ns, svc.name, TRUE, FALSE, FailsAt(fail, "IpBlocksGet", 1))
        id == CHOOSE b \in r.ids : TRUE
        putOk == ~Fails(fail, "TagsPut")
        Ret(e, st, c) == [err |-> e, blocks |-> st, cleared |-> cleared, calls |-> c]
    IN  IF getOk /\ ~updOk THEN Ret("failed to update service", store, c1)
        ELSE IF r.err # "" THEN Ret("unable to retrieve IP reservations", store, c1)
        ELSE IF Cardinality(r.ids) = 0 THEN Ret("", store, c1)
        ELSE IF Cardinality(r.ids) > 1 THEN Ret("multiple IP blocks found", store, c1)
        ELSE IF ~putOk
        THEN Ret("unable to add 'delete' tag", store,
                 Append(c1, Call("TagsPut", id, NoIP, deleteTag, {}, FALSE)))
        ELSE Ret("", TagsPut(store, id, DeleteTagRequest(store[id].tags)),
                 Append(c1, Call("TagsPut", id, NoIP, deleteTag, {}, TRUE)))

\* ------------------------------------------------------------------------
\* The reaper loop started by newLoadBalancers
\* ------------------------------------------------------------------------

\* the block the loop body unassigns while it handles order[i]
GCDetachTarget(order, i) == order[1]

\* the loop body run for order[i .. Len(order)]: snapshot holds the blocks as
\* the list call returned them, order their order in the returned slice, and
\* failing the blocks whose remote call fails
RECURSIVE GCLoop(_, _, _, _, _, _)
GCLoop(store, snapshot, order, i, failing, calls) ==
    IF i > Len(order) THEN [blocks |-> store, calls |-> calls]
    ELSE
      LET b == order[i]
          target == GCDetachTarget(order, i)
          delOk == b \notin failing /\ DeleteOk(store, b)
          detOk == b \notin failing /\ DetachOk(store, network, target)
      IN  IF snapshot[b].status = "unassigned"
          THEN GCLoop(IF delOk THEN Deleted(store, b) ELSE store, snapshot, order, i + 1,
                      failing,
                      Append(calls, CallDuring("Delete", b, NoIP, "", {}, delOk, b)))
          ELSE IF snapshot[b].status = "unassigning"
          THEN GCLoop(store, snapshot, order, i + 1, failing, calls)
          ELSE GCLoop(IF detOk THEN Detached(store, target) ELSE store, snapshot, order,
                      i + 1, failing,
                      Append(calls, CallDuring("Detach", target, NoIP, "", {}, detOk, b)))

\* a pass of the loop that ends by telling the announcer to remove a service
GCPassRemovesService(store, order, failing) ==
    LET g == GCLoop(store, store, order, 1, failing, << >>)
    IN  [err |-> "", blocks |-> g.blocks,
         calls |-> Append(g.calls, SvcCall("RemoveService", NoSvc, NoIP, {}, TRUE))]

\* one pass of the loop over the marked blocks returned in the given order
GCPass(store, order, failing) ==
    LET g == GCLoop(store, store, order, 1, failing, << >>)
    IN  [err |-> "", blocks |-> g.blocks, calls |-> g.calls]

\* the sequences that list every element of set S once
Orders(S) ==
    { o \in [1 .. Cardinality(S) -> S] : \A i, j \in 1 .. Cardinality(S) : o[i] = o[j] => i = j }

\* the blocks of the store tagged for this cluster and service svc that carry
\* no delete marker
ActiveBlocksOf(store, svc) ==
    { b \in DOMAIN store :
        /\ {"cluster", serviceNamespaceTag, serviceNameTag} \subseteq DOMAIN store[b].tags
        /\ store[b].tags["cluster"] = clusterID
        /\ store[b].tags[serviceNamespaceTag] = svc.ns
        /\ store[b].tags[serviceNameTag] = svc.name
        /\ deleteTag \notin DOMAIN store[b].tags }

\* the blocks of the store that carry the delete marker
MarkedBlocks(store) == { b \in DOMAIN store : deleteTag \in DOMAIN store[b].tags }

\* the reaper between two passes
NoSweep == [order |-> << >>, snapshot |-> << >>, i |-> 1]

\* the pass the reaper starts on the blocks the list call returned in the
\* given order: it keeps the blocks as they were listed
SweepOf(store, order) ==
    [order |-> order,
     snapshot |-> [b \in { order[k] : k \in 1 .. Len(order) } |-> store[b].status],
     i |-> 1]

\* one run of the loop body, for the block at the position of the pass; ok
\* says whether the remote call goes through to the provider
SweepBody(store, sw, ok) ==
    LET b == sw.order[sw.i]
        target == GCDetachTarget(sw.order, sw.i)
        delOk == ok /\ DeleteOk(store, b)
        detOk == ok /\ DetachOk(store, network, target)
    IN  IF sw.snapshot[b] = "unassigned"
        THEN [blocks |-> IF delOk THEN Deleted(store, b) ELSE store,
              calls |-> <<CallDuring("Delete", b, NoIP, "", {}, delOk, b)>>]
        ELSE IF sw.snapshot[b] = "unassigning"
        THEN [blocks |-> store, calls |-> << >>]
        ELSE [blocks |-> IF detOk THEN Detached(store, target) ELSE store,
              calls |-> <<CallDuring("Detach", target, NoIP, "", {}, detOk, b)>>]

\* ------------------------------------------------------------------------
\* newLoadBalancers
\* ------------------------------------------------------------------------

\* the cloud object before or without a coordinator: its configuration
\* (Location, LoadBalancerSetting) and no coordinator, no reaper
NoLB(location, config) ==
    [location |-> location, config |-> config, started |-> FALSE, clusterID |-> "",
     network |-> "", implementor |-> ""]

\* url.Parse on the configuration strings the model uses: whether the string
\* parses, and the Scheme and Host of the result. A string without "scheme://"
\* parses as a path, "://" without scheme and an unclosed "[" in the host are
\* parse errors.
urlParse(config) ==
    IF config = "kube-vip://net1" THEN [ok |-> TRUE, scheme |-> "kube-vip", host |-> "net1"]
    ELSE IF config = "kube-vip://net2" THEN [ok |-> TRUE, scheme |-> "kube-vip", host |-> "net2"]
    ELSE IF config = "other://net1" THEN [ok |-> TRUE, scheme |-> "other", host |-> "net1"]
    ELSE IF config = "kube-vip://" THEN [ok |-> TRUE, scheme |-> "kube-vip", host |-> ""]
    ELSE IF config = "kube-vip:///net1" THEN [ok |-> TRUE, scheme |-> "kube-vip", host |-> ""]
    ELSE IF config = "net1" THEN [ok |-> TRUE, scheme |-> "", host |-> ""]
    ELSE [ok |-> FALSE, scheme |-> "", host |-> ""]

\* newLoadBalancers without the check of the host of the configuration
newLoadBalancersNoHostCheck(location, config, ns) ==
    LET u == urlParse(config)
        Fail(e) == [err |-> e, lb |-> NoLB(location, config)]
    IN  IF config = "" THEN Fail("")
        ELSE IF location = "" THEN Fail("no location specified, cannot proceed")
        ELSE IF ns = "error" THEN Fail("failed to get kube-system namespace")
        ELSE IF ns = "nil" THEN Fail("kube-system namespace is missing unexplainably")
        ELSE IF ~u.ok THEN Fail("invalid config")
        ELSE [err |-> "",
              lb |-> [location |-> location, config |-> config, started |-> TRUE,
                      clusterID |-> ns, network |-> u.host,
                      implementor |-> IF u.scheme = "kube-vip" THEN "kube-vip" ELSE ""]]

\* newLoadBalancers given the location, the load-balancer configuration and
\* the outcome ns of the read of the kube-system namespace (its UID, "error"
\* for a failed read, "nil" for a missing object): the error, and the
\* coordinator with its reaper started
newLoadBalancers(location, config, ns) ==
    LET u == urlParse(config)
        Fail(e) == [err |-> e, lb |-> NoLB(location, config)]
    IN  IF config = "" THEN Fail("")
        ELSE IF location = "" THEN Fail("no location specified, cannot proceed")
        ELSE IF ns = "error" THEN Fail("failed to get kube-system namespace")
        ELSE IF ns = "nil" THEN Fail("kube-system namespace is missing unexplainably")
        ELSE IF ~u.ok THEN Fail("invalid config")
        ELSE IF u.host = "" THEN Fail("invalid config: no public network provided")
        ELSE [err |-> "",
              lb |-> [location |-> location, config |-> config, started |-> TRUE,
                      clusterID |-> ns, network |-> u.host,
                      implementor |-> IF u.scheme = "kube-vip" THEN "kube-vip" ELSE ""]]

\* ------------------------------------------------------------------------
\* The instances interface (cloudprovider.InstancesV2)
\* ------------------------------------------------------------------------

\* the name of this provider
ProviderName == "phoenixnap"

InstanceStatusPoweredOn == "powered-on"

InstanceStatusPoweredOff == "powered-off"

InstanceStatusRebooting == "rebooting"

\* a provider ID is a string, written here as a sequence of pieces: "://" is
\* one piece, and the other pieces hold no "://"
Sep == "://"

Pieces == {ProviderName, "aws", Sep, "s1"}

\* strings.Split(s, "://"): the parts of s between the separators
RECURSIVE Split(_)
Split(s) ==
    IF s = << >> THEN << << >> >>
    ELSE LET r == Split(Tail(s))
         IN  IF Head(s) = Sep THEN << << >> >> \o r
             ELSE << <<Head(s)>> \o Head(r) >> \o Tail(r)

\* serverIDFromProviderID that takes the server id after the provider name only
serverIDFromProviderIDWithPrefix(providerID) ==
    IF providerID = << >> THEN [id |-> << >>, err |-> "providerID cannot be empty string"]
    ELSE LET split == Split(providerID)
         IN  IF Len(split) = 2 /\ split[1] = <<ProviderName>>
             THEN [id |-> split[2], err |-> ""]
             ELSE [id |-> << >>, err |-> "unexpected providerID format"]

\* serverIDFromProviderID
serverIDFromProviderID(providerID) ==
    IF providerID = << >> THEN [id |-> << >>, err |-> "providerID cannot be empty string"]
    ELSE LET split == Split(providerID)
         IN  CASE Len(split) = 2 ->
                    IF split[1] # <<ProviderName>>
                    THEN [id |-> << >>, err |-> "provider name from providerID should be phoenixnap"]
                    ELSE [id |-> split[2], err |-> ""]
               [] Len(split) = 1 -> [id |-> providerID, err |-> ""]
               [] OTHER -> [id |-> << >>, err |-> "unexpected providerID format"]

InstanceNotFound == "instance not found"

NoServer == [found |-> FALSE, status |-> ""]

\* serverByID: ServersServerIdGet answers 404, another error status, or the server
serverByID(store, id, apiFails) ==
    IF ~apiFails /\ id \notin DOMAIN store THEN [server |-> NoServer, err |-> InstanceNotFound]
    ELSE IF apiFails THEN [server |-> NoServer, err |-> "server error"]
    ELSE [server |-> [found |-> TRUE, status |-> store[id]], err |-> ""]

\* instances.serverFromProviderID
serverFromProviderID(store, providerID, apiFails) ==
    LET r == serverIDFromProviderID(providerID)
    IN  IF r.err # "" THEN [server |-> NoServer, err |-> r.err]
        ELSE serverByID(store, r.id, apiFails)

\* instances.InstanceShutdown
InstanceShutdown(store, providerID, apiFails) ==
    LET r == serverFromProviderID(store, providerID, apiFails)
    IN  IF r.err # "" THEN [result |-> FALSE, err |-> r.err]
        ELSE [result |-> (r.server.status = InstanceStatusPoweredOff), err |-> ""]

\* instances.InstanceExists
InstanceExists(store, providerID, apiFails) ==
    LET r == serverFromProviderID(store, providerID, apiFails)
    IN  CASE r.err = InstanceNotFound -> [result |-> FALSE, err |-> ""]
          [] r.err \notin {"", InstanceNotFound} -> [result |-> FALSE, err |-> r.err]
          [] OTHER -> [result |-> TRUE, err |-> ""]

\* what a call of the instances interface leaves behind
InstOutcome(op, providerID, apiFailed, r) ==
    [op |-> op, providerID |-> providerID, apiFailed |-> apiFailed,
     result |-> r.result, err |-> r.err]

NoCall == InstOutcome("Init", << >>, FALSE, [result |-> FALSE, err |-> ""])

\* ------------------------------------------------------------------------
\* The coordinator that lets services share a block (unnamed/part_001)
\* ------------------------------------------------------------------------

serviceTagPrefix == "service-ip-"

\* base64 of the sha256 of serviceRep(svc), one string for each service
ServiceHash(svc) ==
    IF svc.ns = "ns1" /\ svc.name = "svc-a" THEN "Xa1"
    ELSE IF svc.ns = "ns1" /\ svc.name = "svc-b" THEN "Yb1"
    ELSE "Za2"

\* serviceTag: the prefix followed by the hash of the service
serviceTag(svc) ==
    IF ServiceHash(svc) = "Xa1" THEN "service-ip-Xa1"
    ELSE IF ServiceHash(svc) = "Yb1" THEN "service-ip-Yb1"
    ELSE "service-ip-Za2"

\* strings.HasPrefix(name, serviceTagPrefix)
HasServicePrefix(name) == name \in {"service-ip-Xa1", "service-ip-Yb1", "service-ip-Za2"}

\* strings.TrimPrefix(name, serviceTagPrefix) of a name that has the prefix
TrimServicePrefix(name) ==
    IF name = "service-ip-Xa1" THEN "Xa1"
    ELSE IF name = "service-ip-Yb1" THEN "Yb1"
    ELSE "Za2"

\* net.IP.String of the addresses of the first blocks
AddrString(a) ==
        CASE a = <<10, 0, 0, 0>> -> "10.0.0.0"
          [] a = <<10, 0, 0, 1>> -> "10.0.0.1"
          [] a = <<10, 0, 0, 2>> -> "10.0.0.2"
          [] a = <<10, 0, 0, 3>> -> "10.0.0.3"
          [] a = <<10, 0, 0, 4>> -> "10.0.0.4"
          [] a = <<10, 0, 0, 5>> -> "10.0.0.5"
          [] a = <<10, 0, 0, 6>> -> "10.0.0.6"
          [] a = <<10, 0, 0, 7>> -> "10.0.0.7"
          [] a = <<10, 0, 0, 8>> -> "10.0.0.8"
          [] a = <<10, 0, 0, 9>> -> "10.0.0.9"
          [] a = <<10, 0, 0, 10>> -> "10.0.0.10"
          [] a = <<10, 0, 0, 11>> -> "10.0.0.11"
          [] a = <<10, 0, 0, 12>> -> "10.0.0.12"
          [] a = <<10, 0, 0, 13>> -> "10.0.0.13"
          [] a = <<10, 0, 0, 14>> -> "10.0.0.14"
          [] a = <<10, 0, 0, 15>> -> "10.0.0.15"
          [] OTHER -> ""

\* the address a tag value spells ("" spells none)
AddrOfString(v) ==
    IF v = "" THEN NoIP
    ELSE CHOOSE a \in { <<10, 0, 0, k>> : k \in 0 .. 15 } : AddrString(a) = v

\* the tags of a block created by the coordinator that shares blocks
SharedTags == [t \in {pnapTag, "cluster"} |-> IF t = pnapTag THEN pnapValue ELSE clusterID]

\* the blocks of the cluster, as the list call filtered by the cluster and
\* usage tags returns them
SharedListed(store) ==
    { b \in DOMAIN store :
        /\ {"cluster", pnapTag} \subseteq DOMAIN store[b].tags
        /\ store[b].tags["cluster"] = clusterID
        /\ store[b].tags[pnapTag] = pnapValue }

\* the keys of the map "used" of a block: the tag names with the service
\* prefix, the prefix cut off
UsedOf(block) ==
    { TrimServicePrefix(t) : t \in { n \in DOMAIN block.tags : HasServicePrefix(n) } }

\* the first address after addr, up to the one before finish, whose string is
\* no key of used; NoIP if there is none
RECURSIVE FirstUnused(_, _, _)
FirstUnused(addr, finish, used) ==
    IF addr = finish THEN NoIP
    ELSE IF AddrString(addr) \in used THEN FirstUnused(AddrNext(addr), finish, used)
    ELSE addr

\* cidr.AddressRange: the last address of the range
LastAddr(c) == <<c.addr[1], c.addr[2], c.addr[3], c.addr[4] + Pow2(32 - c.bits) - 1>>

\* the address EnsureLoadBalancer selects in a block that has room
SelectIP(block) ==
    FirstUnused(AddrNext(block.cidr.addr), LastAddr(block.cidr), UsedOf(block))

\* a block has room: fewer keys in "used" than 32 minus the prefix length
HasRoom(block) == Cardinality(UsedOf(block)) < 32 - block.cidr.bits

\* GetLoadBalancer of the coordinator that shares blocks
SharedGetLoadBalancer(store, svc, failed) ==
    LET listed == { b \in SharedListed(store) : serviceTag(svc) \in DOMAIN store[b].tags }
        targetIP == store[CHOOSE b \in listed : TRUE].tags[serviceTag(svc)]
        Ret(e, x, ip) == [err |-> e, exists |-> x, ip |-> ip]
    IN  IF failed THEN Ret("unable to retrieve IP reservations", FALSE, NoIP)
        ELSE IF Cardinality(listed) = 0 THEN Ret("", FALSE, NoIP)
        ELSE IF Cardinality(listed) > 1 THEN Ret("too many blocks found for same service", FALSE, NoIP)
        ELSE IF targetIP = "" THEN Ret("", FALSE, NoIP)
        ELSE Ret("", TRUE, AddrOfString(targetIP))

\* EnsureLoadBalancer of the coordinator that shares blocks. first is the block
\* with room that comes first in the list returned (0: none has room), newId
\* the id the provider gives to a created block, dup what the provider does
\* with a tag request that names a tag twice.
SharedEnsureLoadBalancer(store, svc, objIP, nodes, fail, first, newId, dup) ==
    LET g == SharedGetLoadBalancer(store, svc, FailsAt(fail, "IpBlocksGet", 1))
        Fail(e, st, c) == [err |-> e, ip |-> NoIP, blocks |-> st, written |-> FALSE,
                           newIP |-> NoIP, calls |-> c]
        createOk == /\ ~Fails(fail, "IpBlocksPost")
                    /\ newId \in BlockIds
                    /\ newId \notin DOMAIN store
        post == Call("IpBlocksPost", IF createOk THEN newId ELSE 0, NoIP, "", {}, createOk)
        found == first # 0
        foundBlock == IF found THEN store[first] ELSE NewBlock(newId, SharedTags)
        foundIP == IF found THEN SelectIP(foundBlock) ELSE NoIP
        store1 == IF found THEN store
                  ELSE [b \in DOMAIN store \cup {newId} |->
                           IF b = newId THEN foundBlock ELSE store[b]]
        c1 == IF found THEN << >> ELSE <<post>>
        newTag == serviceTag(svc)
        twice == newTag \in DOMAIN foundBlock.tags
        putOk == ~Fails(fail, "TagsPut") /\ ~(twice /\ dup = "reject")
        requests == [t \in DOMAIN foundBlock.tags \cup {newTag} |->
                        IF t = newTag /\ ~(twice /\ dup = "first")
                        THEN AddrString(foundIP)
                        ELSE foundBlock.tags[t]]
        put == Call("TagsPut", foundBlock.id, foundIP, newTag, {}, putOk)
        a == addService(svc, objIP, foundIP, filterNodes(nodes), fail)
    IN  IF g.err # "" THEN Fail(g.err, store, << >>)
        ELSE IF g.exists
        THEN [err |-> "", ip |-> g.ip, blocks |-> store, written |-> FALSE,
              newIP |-> NoIP, calls |-> << >>]
        ELSE IF FailsAt(fail, "IpBlocksGet", 2) THEN Fail("list failed", store, << >>)
        ELSE IF ~found /\ ~createOk THEN Fail("unable to create new IP block", store, c1)
        ELSE IF ~putOk THEN Fail("unable to update tags reservations", store1, Append(c1, put))
        ELSE [err |-> IF a.err = "" THEN "" ELSE "failed to add service",
              ip |-> IF a.err = "" THEN SplitIP(a.ipCidr) ELSE NoIP,
              blocks |-> TagsPut(store1, foundBlock.id, requests),
              written |-> a.written, newIP |-> foundIP,
              calls |-> Append(c1, put) \o a.calls]

\* EnsureLoadBalancerDeleted of the coordinator that shares blocks: takes the
\* tag of the service off the block that holds it with the recorded IP
SharedEnsureLoadBalancerDeleted(store, svc, objIP, fail) ==
    LET listed == { b \in SharedListed(store) :
                        /\ serviceTag(svc) \in DOMAIN store[b].tags
                        /\ store[b].tags[serviceTag(svc)] = AddrString(objIP) }
        id == CHOOSE b \in listed : TRUE
        putOk == ~Fails(fail, "TagsPut")
        Ret(e, st, c) == [err |-> e, blocks |-> st, calls |-> c]
    IN  IF Fails(fail, "IpBlocksGet") THEN Ret("unable to retrieve IP reservations", store, << >>)
        ELSE IF Cardinality(listed) = 0 THEN Ret("", store, << >>)
        ELSE IF Cardinality(listed) > 1 THEN Ret("multiple IP blocks found", store, << >>)
        ELSE IF ~putOk
        THEN Ret("unable to update tags reservations", store,
                 <<Call("TagsPut", id, NoIP, serviceTag(svc), {}, FALSE)>>)
        ELSE Ret("", TagsPut(store, id,
                             [t \in DOMAIN store[id].tags \ {serviceTag(svc)} |->
                                 store[id].tags[t]]),
                 <<Call("TagsPut", id, NoIP, serviceTag(svc), {}, TRUE)>>)

\* ------------------------------------------------------------------------
\* Actions
\* ------------------------------------------------------------------------

Init ==
    /\ blocks = << >>
    /\ declaredTags = {}
    /\ svcIP = [s \in Services |-> NoIP]
    /\ last = Outcome("Init", NoSvc, "", FALSE, NoIP, << >>)
    /\ lb = newLoadBalancers("PHX", "kube-vip://net1", clusterID).lb
    /\ inflight = {}
    /\ servers = << >>
    /\ lastInst = NoCall
    /\ sweep = NoSweep

\* the failures a GetLoadBalancer call can meet
GetFailures == { {}, {Failure("IpBlocksGet", 1)} }

\* the failures an UpdateLoadBalancer call can meet
UpdateFailures == { {}, {Failure("UpdateService", 0)} }

\* the failures an EnsureLoadBalancer call can meet: the first one ends the call
EnsureFailures ==
    { {} } \cup
    { {f} : f \in { Failure("IpBlocksGet", 1), Failure("IpBlocksGet", 2),
                    Failure("TagsGet", 0), Failure("IpBlocksPost", 0),
                    Failure("Attach", 0), Failure("SvcGet", 0),
                    Failure("SvcUpdate", 0), Failure("AddService", 0) }
                  \cup { Failure("TagsPost", n) : n \in 1 .. 5 } }

\* the failures an EnsureLoadBalancerDeleted call can meet; the call goes on
\* after a failed re-fetch of the service
DeletedFailures ==
    SUBSET { Failure("SvcGet", 0), Failure("SvcUpdate", 0),
             Failure("IpBlocksGet", 1), Failure("TagsPut", 0) }

FreeIds == BlockIds \ DOMAIN blocks

DoGetLoadBalancer(s) ==
    \E g \in { GetLoadBalancer(blocks, s, svcIP[s], fail) : fail \in GetFailures } :
        /\ last' = Outcome("Get", s, g.err, g.exists, g.ip, << >>)
        /\ UNCHANGED <<blocks, declaredTags, svcIP, lb, inflight, servers, lastInst, sweep>>

DoEnsureLoadBalancer(s) ==
    \E e \in { EnsureLoadBalancer(blocks, declaredTags, s, svcIP[s], Nodes, x[1], x[2]) :
                 x \in EnsureFailures \X (IF FreeIds = {} THEN {0} ELSE FreeIds) } :
        /\ blocks' = e.blocks
        /\ declaredTags' = e.declared
        /\ svcIP' = IF e.written THEN [svcIP EXCEPT ![s] = e.newIP] ELSE svcIP
        /\ last' = OutcomeFor("Ensure", s, { n.name : n \in Nodes }, e.err, e.err = "", e.ip,
                           e.calls)
        /\ UNCHANGED <<lb, inflight, servers, lastInst, sweep>>

DoUpdateLoadBalancer(s) ==
    \E nodes \in NodeLists, fail \in UpdateFailures :
        LET u == UpdateLoadBalancer(s, nodes, fail)
        IN  /\ last' = OutcomeFor("Update", s, { n.name : n \in nodes }, u.err, FALSE, NoIP,
                               u.calls)
            /\ UNCHANGED <<blocks, declaredTags, svcIP, lb, inflight, servers, lastInst, sweep>>

DoEnsureLoadBalancerDeleted(s) ==
    \E d \in { EnsureLoadBalancerDeleted(blocks, s, fail) : fail \in DeletedFailures } :
        /\ blocks' = d.blocks
        /\ svcIP' = IF d.cleared THEN [svcIP EXCEPT ![s] = NoIP] ELSE svcIP
        /\ last' = Outcome("EnsureDeleted", s, d.err, FALSE, NoIP, d.calls)
        /\ UNCHANGED <<declaredTags, lb, inflight, servers, lastInst, sweep>>

\* the outcomes of one pass of the reaper's loop: the list call fails or
\* returns the marked blocks in some order, and any of the calls may fail
GCOutcomes ==
    LET r == getIPBlocks(blocks, "", "", FALSE, TRUE, FALSE)
    IN  { [err |-> "list failed", blocks |-> blocks, calls |-> << >>] } \cup
        { GCPass(blocks, x[1], x[2]) : x \in Orders(r.ids) \X SUBSET r.ids }

\* one tick of the reaper
GCTick ==
    \E g \in GCOutcomes :
        /\ blocks' = g.blocks
        /\ last' = Outcome("GC", NoSvc, g.err, FALSE, NoIP, g.calls)
        /\ UNCHANGED <<declaredTags, svcIP, lb, inflight, servers, lastInst, sweep>>

\* the provider finishes the detach of block b
DetachCompletes(b) ==
    /\ b \in DOMAIN blocks
    /\ blocks[b].status = "unassigning"
    /\ blocks' = [blocks EXCEPT ![b].status = "unassigned",
                                ![b].assignedResourceType = "",
                                ![b].assignedResourceId = ""]
    /\ last' = Outcome("DetachCompletes", NoSvc, "", FALSE, NoIP,
                        <<Call("Detached", b, NoIP, "", {}, TRUE)>>)
    /\ UNCHANGED <<declaredTags, svcIP, lb, inflight, servers, lastInst, sweep>>

Next ==
    \/ \E s \in Services : DoGetLoadBalancer(s)
    \/ \E s \in Services : DoEnsureLoadBalancer(s)
    \/ \E s \in Services : DoUpdateLoadBalancer(s)
    \/ \E s \in Services : DoEnsureLoadBalancerDeleted(s)
    \/ GCTick
    \/ \E b \in BlockIds : DetachCompletes(b)

Spec == Init /\ [][Next]_vars

\* another writer of the provider account (an operator, another tool, a
\* reconcile that was not serialized) creates one more block tagged for
\* service s, which has a block
ExternalCreate(s) ==
    \E id \in FreeIds :
        /\ ActiveBlocksOf(blocks, s) # {}
        /\ blocks' = [b \in DOMAIN blocks \cup {id} |->
                        IF b = id THEN NewBlock(id, Tags(s.ns, s.name)) ELSE blocks[b]]
        /\ last' = Outcome("ExternalCreate", s, "", FALSE, NoIP, << >>)
        /\ UNCHANGED <<declaredTags, svcIP, lb, inflight, servers, lastInst, sweep>>

NextExt ==
    \/ \E s \in Services : DoGetLoadBalancer(s)
    \/ \E s \in Services : DoEnsureLoadBalancer(s)
    \/ \E s \in Services : DoEnsureLoadBalancerDeleted(s)
    \/ GCTick
    \/ \E b \in BlockIds : DetachCompletes(b)
    \/ \E s \in Services : ExternalCreate(s)

\* the operations that read or write blocks, beside other writers of the
\* provider account
SpecExt == Init /\ [][NextExt]_vars

\* one tick of the reaper in which the list call and every call the loop
\* issues reach the provider
GCTickOk ==
    \E g \in { GCPass(blocks, order, {}) :
                 order \in Orders(getIPBlocks(blocks, "", "", FALSE, TRUE, FALSE).ids) } :
        /\ blocks' = g.blocks
        /\ last' = Outcome("GC", NoSvc, g.err, FALSE, NoIP, g.calls)
        /\ UNCHANGED <<declaredTags, svcIP, lb, inflight, servers, lastInst, sweep>>

NextFair ==
    \/ \E s \in Services : DoGetLoadBalancer(s)
    \/ \E s \in Services : DoEnsureLoadBalancer(s)
    \/ \E s \in Services : DoUpdateLoadBalancer(s)
    \/ \E s \in Services : DoEnsureLoadBalancerDeleted(s)
    \/ GCTickOk
    \/ \E b \in BlockIds : DetachCompletes(b)

\* the ticker keeps firing, the reaper's calls reach the provider, and the
\* provider finishes every detach it accepted
FairSpec ==
    /\ Init
    /\ [][NextFair]_vars
    /\ WF_vars(GCTickOk)
    /\ \A b \in BlockIds : WF_vars(DetachCompletes(b))

\* the resources another writer of the provider account can assign a block
\* to: a public network that is not the configured one, or a server
OtherResources == {"network", "server"}

\* another writer of the provider account (an operator, another tool) assigns
\* active block b to resource r, taking it from where it was
ExternalAssign(b, r) ==
    /\ b \in DOMAIN blocks
    /\ deleteTag \notin DOMAIN blocks[b].tags
    /\ blocks[b].assignedResourceId \notin {"net2", "s1"}
    /\ blocks' = [blocks EXCEPT
                    ![b].status = "assigned",
                    ![b].assignedResourceType =
                        IF r = "network" THEN publicNetworkCaps ELSE "server",
                    ![b].assignedResourceId = IF r = "network" THEN "net2" ELSE "s1"]
    /\ last' = Outcome("ExternalAssign", NoSvc, "", FALSE, NoIP, << >>)
    /\ UNCHANGED <<declaredTags, svcIP, lb, inflight, servers, lastInst, sweep>>

\* the values a user writes to Spec.LoadBalancerIP: the address the
\* coordinator derives from the first block, an address of another range, and
\* a string that is no address
UserIPs == { <<10, 0, 0, 2>>, <<10, 0, 0, 10>>, BadIP }

\* a user sets Spec.LoadBalancerIP of service s, which records no IP
UserSetsIP(s, ip) ==
    /\ svcIP[s] = NoIP
    /\ svcIP' = [svcIP EXCEPT ![s] = ip]
    /\ last' = Outcome("UserSetsIP", s, "", FALSE, ip, << >>)
    /\ UNCHANGED <<blocks, declaredTags, lb, inflight, servers, lastInst, sweep>>

NextEnv ==
    \/ \E s \in Services : DoGetLoadBalancer(s)
    \/ \E s \in Services : DoEnsureLoadBalancer(s)
    \/ \E b \in BlockIds, r \in OtherResources : ExternalAssign(b, r)
    \/ \E s \in Services, ip \in UserIPs : UserSetsIP(s, ip)

\* GetLoadBalancer and EnsureLoadBalancer beside a user who sets the IP of a
\* service and another writer of the provider account that assigns blocks
\* elsewhere
SpecEnv == Init /\ [][NextEnv]_vars

\* l.clusterID of a second coordinator that uses the same provider account
otherClusterID == "c2"

\* the blocks of the store tagged with the cluster id of the second coordinator
OtherBlocks(store) ==
    { b \in DOMAIN store :
        "cluster" \in DOMAIN store[b].tags /\ store[b].tags["cluster"] = otherClusterID }

\* the second coordinator's EnsureLoadBalancer for its service s: it creates a
\* block with its own cluster tag and attaches it to the public network
OtherClusterEnsures(s) ==
    \E id \in FreeIds :
        /\ \A b \in OtherBlocks(blocks) :
                serviceNameTag \in DOMAIN blocks[b].tags => blocks[b].tags[serviceNameTag] # s.name
        /\ blocks' = [b \in DOMAIN blocks \cup {id} |->
                        IF b = id
                        THEN Attached([x \in {id} |->
                                        NewBlock(id, [Tags(s.ns, s.name) EXCEPT
                                                        !["cluster"] = otherClusterID])],
                                      network, id)[id]
                        ELSE blocks[b]]
        /\ last' = Outcome("OtherClusterEnsures", s, "", FALSE, NoIP, << >>)
        /\ UNCHANGED <<declaredTags, svcIP, lb, inflight, servers, lastInst, sweep>>

\* the second coordinator's EnsureLoadBalancerDeleted: it marks its block b
OtherClusterDeletes(b) ==
    /\ b \in OtherBlocks(blocks)
    /\ deleteTag \notin DOMAIN blocks[b].tags
    /\ blocks' = TagsPut(blocks, b, DeleteTagRequest(blocks[b].tags))
    /\ last' = Outcome("OtherClusterDeletes", NoSvc, "", FALSE, NoIP, << >>)
    /\ UNCHANGED <<declaredTags, svcIP, lb, inflight, servers, lastInst, sweep>>

NextTwo ==
    \/ \E s \in Services : DoGetLoadBalancer(s)
    \/ \E s \in Services : DoEnsureLoadBalancer(s)
    \/ \E s \in Services : DoEnsureLoadBalancerDeleted(s)
    \/ GCTick
    \/ \E b \in BlockIds : DetachCompletes(b)
    \/ \E s \in Services : OtherClusterEnsures(s)
    \/ \E b \in BlockIds : OtherClusterDeletes(b)

\* the coordinator beside a second coordinator with another cluster id that
\* shares the provider account and the public network and has services of
\* the same namespaces and names
SpecTwo == Init /\ [][NextTwo]_vars

\* the tag names EnsureLoadBalancer hands to ensureTags
requiredTags ==
    <<pnapTag, clusterTag(clusterID)[1], serviceNamespaceTag, serviceNameTag, deleteTag>>

\* the failures an ensureTags call can meet
TagFailures ==
    { {}, {Failure("TagsGet", 0)} } \cup { {Failure("TagsPost", n)} : n \in 1 .. 5 }

\* one call of ensureTags with the required tag names
DoEnsureTags ==
    \E fail \in TagFailures :
        LET t == ensureTags(declaredTags, requiredTags, fail)
        IN  /\ declaredTags' = t.declared
            /\ last' = Outcome("ensureTags", NoSvc, t.err, FALSE, NoIP, t.calls)
            /\ UNCHANGED <<blocks, svcIP, lb, inflight, servers, lastInst, sweep>>

\* another user of the provider account declares tag name t, or removes its
\* declaration
ExternalDeclares(t) ==
    /\ declaredTags' = IF t \in declaredTags THEN declaredTags \ {t}
                       ELSE declaredTags \cup {t}
    /\ last' = Outcome("ExternalDeclares", NoSvc, "", FALSE, NoIP, << >>)
    /\ UNCHANGED <<blocks, svcIP, lb, inflight, servers, lastInst, sweep>>

NextTags ==
    \/ DoEnsureTags
    \/ \E i \in 1 .. Len(requiredTags) : ExternalDeclares(requiredTags[i])

\* ensureTags beside other users of the provider account's tag definitions
SpecTags == Init /\ [][NextTags]_vars

\* the values of the Location setting (PNAP_LOCATION): unset, or a location
Locations == {"", "PHX", "ASH"}

\* the values of the load-balancer setting (PNAP_LOAD_BALANCER)
Configs ==
    {"", "kube-vip://net1", "kube-vip://net2", "other://net1", "kube-vip://",
     "kube-vip:///net1", "net1", "://net1", "kube-vip://[net1"}

\* the outcomes of the read of the kube-system namespace: its UID, a failed
\* read, a missing object
NamespaceReads == {clusterID, "error", "nil"}

\* the location named by the ip-location annotation of service s ("": the
\* service has no such annotation)
ipLocation(s) == IF s.name = "svc-a" THEN "ASH" ELSE ""

\* the process before cloud.Initialize, with some configuration
InitStartup ==
    /\ blocks = << >>
    /\ declaredTags = {}
    /\ svcIP = [s \in Services |-> NoIP]
    /\ last = Outcome("Init", NoSvc, "", FALSE, NoIP, << >>)
    /\ lb \in { NoLB(l, c) : l \in Locations, c \in Configs }
    /\ inflight = {}
    /\ servers = << >>
    /\ lastInst = NoCall
    /\ sweep = NoSweep

\* cloud.Initialize: runs newLoadBalancers on the configuration
DoNewLoadBalancers(ns) ==
    /\ last.op = "Init"
    /\ LET r == newLoadBalancers(lb.location, lb.config, ns)
       IN  /\ lb' = r.lb
           /\ last' = Outcome("newLoadBalancers", NoSvc, r.err, FALSE, NoIP, << >>)
    /\ UNCHANGED <<blocks, declaredTags, svcIP, inflight, servers, lastInst, sweep>>

\* the coordinator exists and is the one the reconcile operations model
Running ==
    /\ lb.started
    /\ lb.clusterID = clusterID
    /\ lb.network = network
    /\ lb.implementor = "kube-vip"

NextStartup ==
    \/ \E ns \in NamespaceReads : DoNewLoadBalancers(ns)
    \/ \E s \in Services : Running /\ DoEnsureLoadBalancer(s)
    \/ \E s \in Services : Running /\ DoEnsureLoadBalancerDeleted(s)
    \/ Running /\ GCTick

\* the process from its start: initialization on some configuration, then
\* the reconcile operations and the reaper of the coordinator it built
SpecStartup == InitStartup /\ [][NextStartup]_vars

\* an EnsureLoadBalancer call that is not serialized with the other calls for
\* service s runs its reads: GetLoadBalancer reports no load balancer and the
\* list of active blocks is empty. The call then waits before it goes on.
EnsureLists(s) ==
    /\ inflight = {}
    /\ LET g == GetLoadBalancer(blocks, s, svcIP[s], {})
           r == getIPBlocks(blocks, s.ns, s.name, TRUE, FALSE, FALSE)
       IN  g.err = "" /\ ~g.exists /\ r.ids = {}
    /\ inflight' = {<<s, svcIP[s]>>}
    /\ last' = OutcomeFor("EnsureLists", s, { n.name : n \in Nodes }, "", FALSE, NoIP, << >>)
    /\ UNCHANGED <<blocks, declaredTags, svcIP, lb, servers, lastInst, sweep>>

\* the failures the part of EnsureLoadBalancer that follows the reads can meet
ContinueFailures == { f \in EnsureFailures : ~Fails(f, "IpBlocksGet") }

\* the call goes on from the empty list it read, whatever the store holds by
\* now: it declares the tags, creates a block, attaches it and adds the service
EnsureContinues(s) ==
    \E p \in inflight, fail \in ContinueFailures,
       newId \in (IF FreeIds = {} THEN {0} ELSE FreeIds) :
        LET asRead == [b \in DOMAIN blocks \ ActiveBlocksOf(blocks, s) |-> blocks[b]]
            e == EnsureLoadBalancer(asRead, declaredTags, s, p[2], Nodes, fail, newId)
        IN  /\ p[1] = s
            /\ blocks' = [b \in DOMAIN blocks \cup DOMAIN e.blocks |->
                            IF b \in DOMAIN blocks THEN blocks[b] ELSE e.blocks[b]]
            /\ declaredTags' = e.declared
            /\ svcIP' = IF e.written THEN [svcIP EXCEPT ![s] = e.newIP] ELSE svcIP
            /\ inflight' = inflight \ {p}
            /\ last' = OutcomeFor("EnsureContinues", s, { n.name : n \in Nodes }, e.err,
                                   e.err = "", e.ip, e.calls)
            /\ UNCHANGED <<lb, servers, lastInst, sweep>>

\* the services whose EnsureLoadBalancer calls are not serialized
RacingServices == { s \in Services : s.name = "svc-a" }

NextRace ==
    \/ \E s \in Services : DoGetLoadBalancer(s)
    \/ \E s \in Services : DoEnsureLoadBalancer(s)
    \/ \E s \in Services : DoEnsureLoadBalancerDeleted(s)
    \/ GCTick
    \/ \E b \in BlockIds : DetachCompletes(b)
    \/ \E s \in RacingServices : EnsureLists(s)
    \/ \E s \in RacingServices : EnsureContinues(s)

\* the coordinator with EnsureLoadBalancer calls that are not serialized per
\* service: one call may stand between its reads and its writes while other
\* operations run
SpecRace == Init /\ [][NextRace]_vars

\* the servers of the account
ServerIds == { <<"s1">> }

ServerStatuses == {InstanceStatusPoweredOn, InstanceStatusPoweredOff, InstanceStatusRebooting}

RECURSIVE SeqsUpTo(_, _)
SeqsUpTo(S, n) ==
    IF n = 0 THEN { << >> }
    ELSE LET shorter == SeqsUpTo(S, n - 1)
         IN  shorter \cup { <<x>> \o t : x \in S, t \in { u \in shorter : Len(u) = n - 1 } }

\* the Spec.ProviderID of the nodes the instances interface is asked about
ProviderIDs == SeqsUpTo(Pieces, MaxIDLen)

\* the account gets a server
CreateServer(id) ==
    /\ id \notin DOMAIN servers
    /\ servers' = [x \in DOMAIN servers \cup {id} |->
                     IF x = id THEN InstanceStatusPoweredOn ELSE servers[x]]
    /\ UNCHANGED <<blocks, declaredTags, svcIP, last, lb, inflight, lastInst, sweep>>

\* a server of the account changes its status
UpdateServer(id, st) ==
    /\ id \in DOMAIN servers
    /\ servers' = [servers EXCEPT ![id] = st]
    /\ UNCHANGED <<blocks, declaredTags, svcIP, last, lb, inflight, lastInst, sweep>>

\* a server of the account is deleted
DeleteServer(id) ==
    /\ id \in DOMAIN servers
    /\ servers' = [x \in DOMAIN servers \ {id} |-> servers[x]]
    /\ UNCHANGED <<blocks, declaredTags, svcIP, last, lb, inflight, lastInst, sweep>>

DoInstanceExists(providerID, apiFails) ==
    /\ lastInst' = InstOutcome("InstanceExists", providerID, apiFails,
                               InstanceExists(servers, providerID, apiFails))
    /\ UNCHANGED <<blocks, declaredTags, svcIP, last, lb, inflight, servers, sweep>>

DoInstanceShutdown(providerID, apiFails) ==
    /\ lastInst' = InstOutcome("InstanceShutdown", providerID, apiFails,
                               InstanceShutdown(servers, providerID, apiFails))
    /\ UNCHANGED <<blocks, declaredTags, svcIP, last, lb, inflight, servers, sweep>>

NextInstances ==
    \/ \E id \in ServerIds : CreateServer(id)
    \/ \E id \in ServerIds, st \in ServerStatuses : UpdateServer(id, st)
    \/ \E id \in ServerIds : DeleteServer(id)
    \/ \E providerID \in ProviderIDs, apiFails \in BOOLEAN : DoInstanceExists(providerID, apiFails)
    \/ \E providerID \in ProviderIDs, apiFails \in BOOLEAN : DoInstanceShutdown(providerID, apiFails)

\* the instances interface beside the account's servers
SpecInstances == Init /\ [][NextInstances]_vars

\* the reaper's ticker fires: the list call fails, or the pass starts on the
\* marked blocks it returned
SweepLists ==
    /\ sweep.i > Len(sweep.order)
    /\ \E failed \in BOOLEAN :
        LET r == getIPBlocks(blocks, "", "", FALSE, TRUE, failed)
        IN  \E order \in Orders(r.ids) :
                /\ sweep' = SweepOf(blocks, order)
                /\ last' = Outcome("GCList", NoSvc, r.err, FALSE, NoIP, << >>)
    /\ UNCHANGED <<blocks, declaredTags, svcIP, lb, inflight, servers, lastInst>>

\* the pass handles its next block
SweepStep ==
    /\ sweep.i <= Len(sweep.order)
    /\ \E ok \in BOOLEAN :
        LET g == SweepBody(blocks, sweep, ok)
        IN  /\ blocks' = g.blocks
            /\ last' = Outcome("GC", NoSvc, "", FALSE, NoIP, g.calls)
    /\ sweep' = [sweep EXCEPT !.i = sweep.i + 1]
    /\ UNCHANGED <<declaredTags, svcIP, lb, inflight, servers, lastInst>>

\* EnsureLoadBalancer while a pass may be under way: the provider gives a new
\* block an id that no block had before, so none that the pass holds
EnsureBesideSweep(s) ==
    /\ DoEnsureLoadBalancer(s)
    /\ \A k \in 1 .. Len(sweep.order) : sweep.order[k] \in DOMAIN blocks \/ sweep.order[k] \notin DOMAIN blocks'

NextSweep ==
    \/ \E s \in Services : DoGetLoadBalancer(s)
    \/ \E s \in Services : EnsureBesideSweep(s)
    \/ \E s \in Services : DoEnsureLoadBalancerDeleted(s)
    \/ \E b \in BlockIds : DetachCompletes(b)
    \/ SweepLists
    \/ SweepStep

\* the coordinator with the reaper's pass taken one remote call at a time, so
\* that the reconcile operations run between its list call and its other calls
SpecSweep == Init /\ [][NextSweep]_vars

\* the services of the cluster when a second namespace holds a service with
\* the name of one of the first
ServicesAcross == Services \cup { [ns |-> "ns2", name |-> "svc-a"] }

InitAcross ==
    /\ blocks = << >>
    /\ declaredTags = {}
    /\ svcIP = [s \in ServicesAcross |-> NoIP]
    /\ last = Outcome("Init", NoSvc, "", FALSE, NoIP, << >>)
    /\ lb = newLoadBalancers("PHX", "kube-vip://net1", clusterID).lb
    /\ inflight = {}
    /\ servers = << >>
    /\ lastInst = NoCall
    /\ sweep = NoSweep

NextAcross ==
    \/ \E s \in ServicesAcross : DoGetLoadBalancer(s)
    \/ \E s \in ServicesAcross : DoEnsureLoadBalancer(s)
    \/ \E s \in ServicesAcross : DoEnsureLoadBalancerDeleted(s)
    \/ GCTick
    \/ \E b \in BlockIds : DetachCompletes(b)

\* the coordinator reconciling services that differ in name and services that
\* differ in namespace only
SpecAcross == InitAcross /\ [][NextAcross]_vars

\* the failures a call of the coordinator that shares blocks can meet
SharedFailures ==
    { {} } \cup
    { {f} : f \in { Failure("IpBlocksGet", 1), Failure("IpBlocksGet", 2),
                    Failure("IpBlocksPost", 0), Failure("TagsPut", 0), Failure("SvcGet", 0),
                    Failure("SvcUpdate", 0), Failure("AddService", 0) } }

\* what the provider does with a tag request that names one tag twice
DuplicateTagOutcomes == {"reject", "first", "last"}

DoSharedGetLoadBalancer(s) ==
    \E failed \in BOOLEAN :
        LET g == SharedGetLoadBalancer(blocks, s, failed)
        IN  /\ last' = Outcome("Get", s, g.err, g.exists, g.ip, << >>)
            /\ UNCHANGED <<blocks, declaredTags, svcIP, lb, inflight, servers, lastInst, sweep>>

\* the blocks the account may hold in the runs of the shared coordinator
MaxSharedBlocks == 1

\* the ids the provider can give to a block created by the shared coordinator
SharedFreeIds == { b \in FreeIds : b <= MaxSharedBlocks }

\* The inputs the call does not read are fixed: a call that returns before the
\* blocks are inspected reads neither the list order nor the provider's answers.
DoSharedEnsureLoadBalancer(s) ==
    LET room == { b \in SharedListed(blocks) : HasRoom(blocks[b]) }
        Twice(b) == b # 0 /\ serviceTag(s) \in DOMAIN blocks[b].tags
        g == SharedGetLoadBalancer(blocks, s, FALSE)
        firsts == IF room = {} THEN {0} ELSE room
        newIds == IF room # {} \/ SharedFreeIds = {} THEN {0} ELSE SharedFreeIds
    IN  \E fail \in SharedFailures :
            LET early == \/ FailsAt(fail, "IpBlocksGet", 1)
                         \/ FailsAt(fail, "IpBlocksGet", 2)
                         \/ g.err # ""
                         \/ g.exists
            IN  /\ (g.err # "" \/ g.exists) => fail \in { {}, {Failure("IpBlocksGet", 1)} }
                /\ \E first \in (IF early THEN {CHOOSE b \in firsts : TRUE} ELSE firsts),
                      newId \in (IF early THEN {CHOOSE b \in newIds : TRUE} ELSE newIds),
                      dup \in DuplicateTagOutcomes :
                        LET e == SharedEnsureLoadBalancer(blocks, s, svcIP[s], Nodes, fail,
                                                          first, newId, dup)
                        IN  /\ dup = "last" \/ (~early /\ Twice(first))
                            /\ blocks' = e.blocks
                            /\ svcIP' = IF e.written THEN [svcIP EXCEPT ![s] = e.newIP]
                                         ELSE svcIP
                            /\ last' = OutcomeFor("Ensure", s, { n.name : n \in Nodes },
                                                   e.err, e.err = "", e.ip, e.calls)
                            /\ UNCHANGED <<declaredTags, lb, inflight, servers, lastInst,
                                           sweep>>

DoSharedEnsureLoadBalancerDeleted(s) ==
    \E fail \in { {}, {Failure("IpBlocksGet", 0)}, {Failure("TagsPut", 0)} } :
        LET d == SharedEnsureLoadBalancerDeleted(blocks, s, svcIP[s], fail)
        IN  /\ blocks' = d.blocks
            /\ last' = Outcome("EnsureDeleted", s, d.err, FALSE, NoIP, d.calls)
            /\ UNCHANGED <<declaredTags, svcIP, lb, inflight, servers, lastInst, sweep>>

NextShared ==
    \/ \E s \in ServicesAcross : DoSharedGetLoadBalancer(s)
    \/ \E s \in ServicesAcross : DoSharedEnsureLoadBalancer(s)
    \/ \E s \in ServicesAcross : DoSharedEnsureLoadBalancerDeleted(s)

\* the coordinator that lets the services of the cluster share blocks
SpecShared == InitAcross /\ [][NextShared]_vars

TypeOK ==
    /\ DOMAIN blocks \subseteq BlockIds
    /\ \A b \in DOMAIN blocks : blocks[b].status \in {"unassigned", "assigned", "unassigning"}

\* ------------------------------------------------------------------------
\* Vocabulary of the properties
\* ------------------------------------------------------------------------

\* the calls named c that an operation issued
CallsNamed(calls, c) == { calls[i] : i \in { j \in 1 .. Len(calls) : calls[j].call = c } }

\* service svc is Bound: it records an address inside its single active
\* block, and that block is assigned to the configured network
Bound(store, ips, svc) ==
    /\ ParseAddrOk(ips[svc])
    /\ Cardinality(ActiveBlocksOf(store, svc)) = 1
    /\ \A b \in ActiveBlocksOf(store, svc) :
        /\ PrefixContains(store[b].cidr, ips[svc])
        /\ store[b].assignedResourceType \in {publicNetwork, publicNetworkCaps}
        /\ store[b].assignedResourceId = network

\* ------------------------------------------------------------------------
\* Properties
\* ------------------------------------------------------------------------

\* C1: in every state reached by reconcile calls serialized per service
\* (failing ones included) and reaper ticks, each service of the cluster has at
\* most one block without the delete marker.
C1_AtMostOneActiveBlock ==
    \A s \in Services : Cardinality(ActiveBlocksOf(blocks, s)) <= 1

\* a failed EnsureLoadBalancer left its service with one active block
C1_Witness ==
    /\ last.op = "Ensure"
    /\ last.err # ""
    /\ CallsNamed(last.calls, "IpBlocksPost") # {}
    /\ Cardinality(ActiveBlocksOf(blocks, last.svc)) = 1
    /\ MarkedBlocks(blocks) # {}

\* C2: an EnsureLoadBalancer call that directly follows an EnsureLoadBalancer
\* call for the same service issues no block-create request when the first call
\* left the service a block, and a successful first call always did: the store
\* holds exactly one active block of the service before and after the second.
C2_NoSecondBlock ==
    [][ (last.op = "Ensure" /\ last'.op = "Ensure" /\ last'.svc = last.svc)
        => /\ last.err = "" => Cardinality(ActiveBlocksOf(blocks, last.svc)) = 1
           /\ Cardinality(ActiveBlocksOf(blocks, last.svc)) = 1
                => /\ CallsNamed(last'.calls, "IpBlocksPost") = {}
                   /\ ActiveBlocksOf(blocks', last.svc) = ActiveBlocksOf(blocks, last.svc)
      ]_vars

\* an EnsureLoadBalancer found the service served: it succeeded without a write
C2_Witness ==
    /\ last.op = "Ensure"
    /\ last.err = ""
    /\ last.calls = << >>
    /\ Cardinality(ActiveBlocksOf(blocks, last.svc)) = 1

\* C3: two consecutive successful EnsureLoadBalancer calls for the same service
\* return the same ingress IP in their status.
C3_SameIngressIP ==
    [][ (/\ last.op = "Ensure" /\ last.err = ""
         /\ last'.op = "Ensure" /\ last'.svc = last.svc /\ last'.err = "")
        => last'.ip = last.ip ]_vars

\* C4: a successful EnsureLoadBalancer that created the block of a service
\* without recorded IP returns the address derived from that block's CIDR, and
\* the returned address is the one it wrote to the service.
C4_ReturnsDerivedAddress ==
    (/\ last.op = "Ensure" /\ last.err = ""
     /\ CallsNamed(last.calls, "IpBlocksPost") # {}
     /\ CallsNamed(last.calls, "SvcUpdate") # {})
    => /\ last.ip = svcIP[last.svc]
       /\ \A c \in CallsNamed(last.calls, "SvcUpdate") : last.ip = c.ip
       /\ \A c \in CallsNamed(last.calls, "IpBlocksPost") :
            PrefixContains(CidrOf(c.id), last.ip)

\* the address an EnsureLoadBalancer call wrote to the service whose active
\* block has CIDR 10.0.0.0/29 is addr
DerivedFromFirstBlock(addr) ==
    (/\ last.op = "Ensure"
     /\ \E b \in ActiveBlocksOf(blocks, last.svc) :
            blocks[b].cidr.addr = <<10, 0, 0, 0>> /\ blocks[b].cidr.bits = 29)
    => \A c \in CallsNamed(last.calls, "SvcUpdate") : c.ip = addr

\* C5 as stated: for a block whose CIDR is 10.0.0.0/29 the derived service
\* address is 10.0.0.3 on every call.
C5_DerivedIsDotThree == DerivedFromFirstBlock(<<10, 0, 0, 3>>)

\* C5 amended: for a block whose CIDR is 10.0.0.0/29 the derived service
\* address is 10.0.0.2 (network address + 2: the third address of the block,
\* after network .0 and gateway .1) on every call.
C5_DerivedIsDotTwo == DerivedFromFirstBlock(<<10, 0, 0, 2>>)

\* an EnsureLoadBalancer derived the address again from a block 10.0.0.0/29
\* that an earlier call had created, and wrote it
C5_Witness ==
    /\ last.op = "Ensure"
    /\ CallsNamed(last.calls, "IpBlocksPost") = {}
    /\ \E c \in CallsNamed(last.calls, "SvcUpdate") : c.ok /\ c.ip = <<10, 0, 0, 2>>
    /\ \E b \in ActiveBlocksOf(blocks, last.svc) :
            blocks[b].cidr.addr = <<10, 0, 0, 0>> /\ blocks[b].cidr.bits = 29

\* C7: a successful EnsureLoadBalancerDeleted leaves the active block of its
\* service in the store, carrying the delete marker and the usage and cluster
\* tags, so that the reaper's cluster-wide deleted-only query returns it; and a
\* block leaves the store only in a reaper tick that saw it marked and
\* "unassigned" and issued its delete.
C7_DeletionIsStaged ==
    [][ /\ (last'.op = "EnsureDeleted" /\ last'.err = "")
            => \A b \in ActiveBlocksOf(blocks, last'.svc) :
                /\ b \in DOMAIN blocks'
                /\ {deleteTag, pnapTag, "cluster"} \subseteq DOMAIN blocks'[b].tags
                /\ blocks'[b].tags[pnapTag] = pnapValue
                /\ blocks'[b].tags["cluster"] = clusterID
                /\ b \in getIPBlocks(blocks', "", "", FALSE, TRUE, FALSE).ids
                /\ blocks'[b].status = blocks[b].status
        /\ \A b \in DOMAIN blocks \ DOMAIN blocks' :
                /\ last'.op = "GC"
                /\ deleteTag \in DOMAIN blocks[b].tags
                /\ blocks[b].status = "unassigned"
                /\ \E c \in CallsNamed(last'.calls, "Delete") : c.id = b /\ c.ok
      ]_vars

\* EnsureLoadBalancerDeleted has just marked a block that is still attached
C7_Witness ==
    /\ last.op = "EnsureDeleted"
    /\ last.err = ""
    /\ \E c \in CallsNamed(last.calls, "TagsPut") :
        /\ c.ok
        /\ c.id \in MarkedBlocks(blocks)
        /\ blocks[c.id].status = "assigned"

\* C9: a successful EnsureLoadBalancerDeleted leaves its service without
\* active block; an EnsureLoadBalancer for a service without active block never
\* attaches a block that carries the delete marker and, when it succeeds, has
\* created a block that was not in the store, attached that block and written
\* no address but one of that block; and a block whose delete the reaper
\* issued with success is absent from the store.
C9_RoundTripFreshBlock ==
    [][ /\ (last'.op = "EnsureDeleted" /\ last'.err = "")
            => ActiveBlocksOf(blocks', last'.svc) = {}
        /\ (last'.op = "Ensure" /\ ActiveBlocksOf(blocks, last'.svc) = {})
            => /\ \A c \in CallsNamed(last'.calls, "Attach") :
                    c.id \notin MarkedBlocks(blocks) /\ c.id \notin MarkedBlocks(blocks')
               /\ last'.err = ""
                    => \E n \in CallsNamed(last'.calls, "IpBlocksPost") :
                        /\ n.ok
                        /\ n.id \notin DOMAIN blocks
                        /\ ActiveBlocksOf(blocks', last'.svc) = {n.id}
                        /\ \A c \in CallsNamed(last'.calls, "Attach") : c.id = n.id
                        /\ \A c \in CallsNamed(last'.calls, "SvcUpdate") :
                                PrefixContains(blocks'[n.id].cidr, c.ip)
                        /\ \A m \in MarkedBlocks(blocks) :
                                m \in DOMAIN blocks' /\ blocks'[m] = blocks[m]
        /\ (last'.op = "GC")
            => \A c \in CallsNamed(last'.calls, "Delete") : c.ok => c.id \notin DOMAIN blocks'
      ]_vars

\* EnsureLoadBalancer created a block while a block with the delete marker
\* was still in the store
C9_Witness ==
    /\ last.op = "Ensure"
    /\ last.err = ""
    /\ \E n \in CallsNamed(last.calls, "IpBlocksPost") : n.ok
    /\ \E c \in CallsNamed(last.calls, "SvcUpdate") : c.ok
    /\ MarkedBlocks(blocks) # {}

\* C10: EnsureLoadBalancer for a Bound service issues no remote write (no tag
\* declaration, block create, attach, tag-set write, service update or
\* announcer call) and changes nothing; it returns the recorded address as the
\* status unless its list call fails.
C10_BoundEnsureWritesNothing ==
    [][ (last'.op = "Ensure" /\ Bound(blocks, svcIP, last'.svc))
        => /\ last'.calls = << >>
           /\ UNCHANGED <<blocks, declaredTags, svcIP>>
           /\ \/ last'.err = "" /\ last'.ip = svcIP[last'.svc]
              \/ last'.err = "list failed"
      ]_vars

\* EnsureLoadBalancer returned the recorded address of a Bound service
C10_Witness ==
    /\ last.op = "Ensure"
    /\ last.err = ""
    /\ last.calls = << >>
    /\ Bound(blocks, svcIP, last.svc)
    /\ last.ip = svcIP[last.svc]
    /\ last.ip # NoIP

\* what C6 says of a step that is a GetLoadBalancer or EnsureLoadBalancer call
\* for a service that has two or more active blocks: the call picks no block
\* and writes nothing, EnsureLoadBalancer returns an error, and so does
\* GetLoadBalancer, in every case (getAlwaysErrs) or when the service records
\* an IP
TwoBlocksRefused(getAlwaysErrs) ==
    (/\ last'.op \in {"Get", "Ensure"}
     /\ Cardinality(ActiveBlocksOf(blocks, last'.svc)) >= 2)
    => /\ last'.calls = << >>
       /\ UNCHANGED <<blocks, declaredTags, svcIP>>
       /\ last'.ip = NoIP
       /\ last'.op = "Ensure" => last'.err # ""
       /\ last'.op = "Get"
            => /\ ~last'.exists
               /\ last'.err # "" <=> (getAlwaysErrs \/ svcIP[last'.svc] # NoIP)

\* C6 as stated: with two active blocks tagged for the same (cluster, service)
\* both GetLoadBalancer and EnsureLoadBalancer return an error and pick no
\* block.
C6_BothFail == [][TwoBlocksRefused(TRUE)]_vars

\* C6 amended: with two active blocks tagged for the same (cluster, service)
\* EnsureLoadBalancer returns an error; GetLoadBalancer returns an error when
\* the service records an IP and reports, without error, that no load balancer
\* exists when the service records none; neither picks a block: nothing is
\* attached, recorded, created or announced.
C6_FailUnlessNoRecordedIP == [][TwoBlocksRefused(FALSE)]_vars

\* EnsureLoadBalancer refused a service that has two active blocks
C6_Witness ==
    /\ last.op = "Ensure"
    /\ last.err = "more than one block found"
    /\ Cardinality(ActiveBlocksOf(blocks, last.svc)) >= 2
    /\ svcIP[last.svc] # NoIP

\* C8: with ticks firing, calls reaching the provider and detaches completing,
\* every block that carries the delete marker and is attached to the
\* configured network is eventually deleted.
C8_MarkedBlockEventuallyDeleted ==
    \A b \in BlockIds :
        [](( /\ b \in MarkedBlocks(blocks)
             /\ blocks[b].status = "assigned"
             /\ blocks[b].assignedResourceId = network )
            => <>(b \notin DOMAIN blocks))

\* C11: no reconcile operation (GetLoadBalancer, EnsureLoadBalancer,
\* UpdateLoadBalancer, EnsureLoadBalancerDeleted) issues a detach or a delete
\* of a block or makes a block leave the store or its network; a block leaves
\* the store only in a step of the reaper.
C11_ReconcilerNeverDetachesOrDeletes ==
    [][ /\ last'.op \in {"Get", "Ensure", "Update", "EnsureDeleted"}
            => /\ CallsNamed(last'.calls, "Detach") = {}
               /\ CallsNamed(last'.calls, "Delete") = {}
               /\ DOMAIN blocks \subseteq DOMAIN blocks'
               /\ \A b \in DOMAIN blocks :
                    blocks[b].status = "assigned"
                        => /\ blocks'[b].status = "assigned"
                           /\ blocks'[b].assignedResourceId = blocks[b].assignedResourceId
        /\ DOMAIN blocks \ DOMAIN blocks' # {} => last'.op = "GC"
      ]_vars

\* EnsureLoadBalancerDeleted marked an attached block and cleared the recorded
\* address while an earlier marked block was still waiting for the reaper
C11_Witness ==
    /\ last.op = "EnsureDeleted"
    /\ last.err = ""
    /\ svcIP[last.svc] = NoIP
    /\ Cardinality(MarkedBlocks(blocks)) = 2
    /\ \E c \in CallsNamed(last.calls, "TagsPut") :
            c.ok /\ blocks[c.id].status = "assigned" /\ blocks[c.id].assignedResourceId = network

\* the calls the reaper issued while it handled block b
CallsDuring(calls, b) == { calls[i] : i \in { j \in 1 .. Len(calls) : calls[j].during = b } }

\* C12: in a reaper tick whose list call succeeded, for every block carrying
\* the delete marker: a delete of that block is issued if its status is
\* "unassigned", no call is issued for it if its status is "unassigning", and
\* otherwise a detach of that same block is issued, also when the tick lists
\* more than one marked block.
C12_TickActsOnExaminedBlock ==
    [][ (last'.op = "GC" /\ last'.err = "")
        => \A b \in MarkedBlocks(blocks) :
            LET cs == CallsDuring(last'.calls, b)
            IN  /\ blocks[b].status = "unassigned"
                    => /\ cs # {}
                       /\ \A c \in cs : c.call = "Delete" /\ c.id = b
                /\ blocks[b].status = "unassigning" => cs = {}
                /\ blocks[b].status \notin {"unassigned", "unassigning"}
                    => /\ cs # {}
                       /\ \A c \in cs : c.call = "Detach" /\ c.id = b
      ]_vars

\* the reaper's call for marked block a failed in this tick, or a is still
\* "unassigning"
StallsOrFails(a) ==
    \/ blocks[a].status = "unassigning"
    \/ \E c \in CallsDuring(last'.calls, a) : ~c.ok

\* C13: in a reaper tick in which the call for one marked block fails or that
\* block stays "unassigning", every other marked block is still handled: an
\* "unassigned" one is deleted and one assigned to the configured network is
\* detached, unless the call issued for that very block fails.
C13_IsolatedPerBlock ==
    [][ (last'.op = "GC" /\ last'.err = "")
        => \A b \in MarkedBlocks(blocks) :
            (\E a \in MarkedBlocks(blocks) \ {b} : StallsOrFails(a))
            => /\ blocks[b].status = "unassigned"
                    => \/ b \notin DOMAIN blocks'
                       \/ \E c \in CallsNamed(last'.calls, "Delete") : c.id = b /\ ~c.ok
               /\ (blocks[b].status = "assigned" /\ blocks[b].assignedResourceId = network)
                    => \/ blocks'[b].status = "unassigning"
                       \/ \E c \in CallsNamed(last'.calls, "Detach") : c.id = b /\ ~c.ok
      ]_vars

\* C14: a GetLoadBalancer call for a service that records an IP and has no
\* active block returns an error.
C14_RecordedIPNeedsBlock ==
    (/\ last.op = "Get"
     /\ svcIP[last.svc] # NoIP
     /\ ActiveBlocksOf(blocks, last.svc) = {})
    => last.err # ""

\* C16: an EnsureLoadBalancerDeleted call that does not clear the recorded IP,
\* because the re-fetch of the service or the update of the service fails,
\* does not fail for that reason and still writes the delete marker to the
\* active block of the service.
C16_ClearFailureDoesNotFail ==
    [][ (/\ last'.op = "EnsureDeleted"
         /\ \A c \in CallsNamed(last'.calls, "SvcUpdate") : ~c.ok)
        => /\ last'.err # "failed to update service"
           /\ (/\ Cardinality(ActiveBlocksOf(blocks, last'.svc)) = 1
               /\ last'.err # "unable to retrieve IP reservations")
                => \E c \in CallsNamed(last'.calls, "TagsPut") :
                        c.id \in ActiveBlocksOf(blocks, last'.svc)
      ]_vars

\* C17: an EnsureLoadBalancerDeleted call for a service without active block
\* (the block already carries the delete marker, or there is none) issues no
\* tag-set write, changes no block and returns success unless the update of
\* the service or the list call fails; and a call that directly follows a
\* successful call for the same service leaves every tag set as it was.
C17_DeleteIsIdempotent ==
    [][ last'.op = "EnsureDeleted"
        => /\ ActiveBlocksOf(blocks, last'.svc) = {}
                => /\ CallsNamed(last'.calls, "TagsPut") = {}
                   /\ blocks' = blocks
                   /\ last'.err \in {"", "failed to update service",
                                     "unable to retrieve IP reservations"}
                   /\ last'.err = "failed to update service"
                        => \E c \in CallsNamed(last'.calls, "SvcUpdate") : ~c.ok
           /\ (last.op = "EnsureDeleted" /\ last.svc = last'.svc /\ last.err = "")
                => /\ CallsNamed(last'.calls, "TagsPut") = {}
                   /\ blocks' = blocks
      ]_vars

\* EnsureLoadBalancerDeleted returned success without a tag-set write for a
\* service whose block was already marked
C17_Witness ==
    /\ last.op = "EnsureDeleted"
    /\ last.err = ""
    /\ CallsNamed(last.calls, "TagsPut") = {}
    /\ \E c \in CallsNamed(last.calls, "SvcUpdate") : c.ok
    /\ ActiveBlocksOf(blocks, last.svc) = {}
    /\ MarkedBlocks(blocks) # {}
    /\ \A s \in Services : ActiveBlocksOf(blocks, s) = {}

\* the errors of a failed validation: an IP or CIDR that does not parse, a
\* recorded IP outside its block, more than one active block
ValidationErrors ==
    {"invalid service IP", "invalid CIDR in block", "block does not contain IP",
     "more than one block found", "multiple IP blocks found"}

\* C18: a GetLoadBalancer, EnsureLoadBalancer or EnsureLoadBalancerDeleted
\* call that fails with a validation failure leaves the recorded IP of every
\* service as it was before the call.
C18_ValidationFailureKeepsIP ==
    [][ (/\ last'.op \in {"Get", "Ensure", "EnsureDeleted"}
         /\ last'.err \in ValidationErrors)
        => svcIP' = svcIP ]_vars

\* C20: an UpdateLoadBalancer call given a node that passes the node selector
\* and has no provider ID returns an error and does not call the announcer at
\* all; otherwise it calls the announcer's UpdateService once, for the service,
\* with the selected nodes; and in every case it leaves the recorded IPs, the
\* blocks with their tags and attachments, and the declared tags unchanged.
C20_UpdateAllOrNothing ==
    [][ last'.op = "Update"
        => LET given == { n \in Nodes : n.name \in last'.nodes }
               sel == { n \in given : n.match }
           IN  /\ UNCHANGED <<blocks, declaredTags, svcIP>>
               /\ (\E n \in sel : n.providerID = "")
                    => last'.err # "" /\ last'.calls = << >>
               /\ (\A n \in sel : n.providerID # "")
                    => /\ Len(last'.calls) = 1
                       /\ last'.calls[1].call = "UpdateService"
                       /\ last'.calls[1].svc = last'.svc
                       /\ last'.calls[1].nodes = { n.name : n \in sel }
                       /\ last'.err = "" <=> last'.calls[1].ok
      ]_vars

\* UpdateLoadBalancer refused a node list holding a selected node without
\* provider ID, for a service that has a block and a recorded IP
C20_Witness ==
    /\ last.op = "Update"
    /\ last.err = "no provider ID given for node"
    /\ last.calls = << >>
    /\ "n2" \in last.nodes
    /\ svcIP[last.svc] # NoIP
    /\ ActiveBlocksOf(blocks, last.svc) # {}

\* C15: a GetLoadBalancer call for a service that records an IP and has
\* exactly one active block reports exists=true, with the recorded IP, only if
\* the IP lies inside the block's CIDR and the block is assigned to the
\* configured public network; when the IP is outside the CIDR or the block is
\* unassigned, assigned to a non-network resource or to another network, it
\* returns an error and does not report exists=true.
C15_ExistsOnlyIfConsistent ==
    (/\ last.op = "Get"
     /\ svcIP[last.svc] # NoIP
     /\ Cardinality(ActiveBlocksOf(blocks, last.svc)) = 1)
    => /\ last.exists
            => /\ Bound(blocks, svcIP, last.svc)
               /\ last.err = ""
               /\ last.ip = svcIP[last.svc]
       /\ ~Bound(blocks, svcIP, last.svc) => (last.err # "" /\ ~last.exists)

\* GetLoadBalancer refused a recorded IP whose block another writer had
\* assigned to a different network
C15_Witness ==
    /\ last.op = "Get"
    /\ last.err = "block is assigned to another network"
    /\ ~last.exists
    /\ svcIP[last.svc] # NoIP
    /\ \E b \in ActiveBlocksOf(blocks, last.svc) :
        /\ PrefixContains(blocks[b].cidr, svcIP[last.svc])
        /\ blocks[b].assignedResourceType = publicNetworkCaps
        /\ blocks[b].assignedResourceId = "net2"

\* the attach calls an operation issued, in order
AttachCalls(calls) == SelectSeq(calls, LAMBDA c : c.call = "Attach")

\* C19: an EnsureLoadBalancer call never issues a detach; for the active block
\* of its service it issues no attach when the block is already assigned to
\* the configured network; it returns an error, without attach, without
\* recording an IP and without calling the announcer, when the block is
\* assigned to another network or to a resource that is no network; and when
\* it reaches the attach step with an unassigned block, found or just created,
\* it issues exactly one attach, for that block.
C19_AttachStep ==
    [][ last'.op = "Ensure"
        => LET A == ActiveBlocksOf(blocks, last'.svc)
               attaches == AttachCalls(last'.calls)
           IN  /\ CallsNamed(last'.calls, "Detach") = {}
               /\ \A c \in CallsNamed(last'.calls, "Attach") : c.ip = NoIP /\ c.tag = ""
               /\ Cardinality(A) = 1
                    => \A b \in A :
                        LET ours == /\ blocks[b].assignedResourceType
                                            \in {publicNetwork, publicNetworkCaps}
                                    /\ blocks[b].assignedResourceId = network
                        IN  /\ ours => attaches = << >>
                            /\ (blocks[b].assignedResourceType # "" /\ ~ours)
                                => /\ last'.err # ""
                                   /\ attaches = << >>
                                   /\ CallsNamed(last'.calls, "SvcUpdate") = {}
                                   /\ CallsNamed(last'.calls, "AddService") = {}
                                   /\ UNCHANGED <<blocks, svcIP>>
                            /\ (/\ blocks[b].assignedResourceType = ""
                                /\ svcIP[last'.svc] = NoIP
                                /\ last'.err # "list failed")
                                => Len(attaches) = 1 /\ attaches[1].id = b
               /\ \A n \in CallsNamed(last'.calls, "IpBlocksPost") :
                    n.ok => Len(attaches) = 1 /\ attaches[1].id = n.id
      ]_vars

\* EnsureLoadBalancer refused, at its attach step, a block that another writer
\* had assigned to a server
C19_Witness ==
    /\ last.op = "Ensure"
    /\ last.err = "block is not assigned to a public network"
    /\ last.calls = << >>
    /\ svcIP[last.svc] = NoIP
    /\ \E b \in ActiveBlocksOf(blocks, last.svc) :
        /\ blocks[b].assignedResourceType = "server"
        /\ blocks[b].assignedResourceId = "s1"

\* C21: no operation of the coordinator (GetLoadBalancer, EnsureLoadBalancer,
\* UpdateLoadBalancer, EnsureLoadBalancerDeleted, a reaper tick) issues a call
\* for, changes or removes a block tagged with the cluster id of a second
\* coordinator, or records or reports an address of such a block, even when
\* that block is tagged for a service of the same namespace and name.
C21_OtherClusterUntouched ==
    [][ last'.op \in {"Get", "Ensure", "Update", "EnsureDeleted", "GC"}
        => /\ \A b \in OtherBlocks(blocks) :
                /\ b \in DOMAIN blocks'
                /\ blocks'[b] = blocks[b]
                /\ \A i \in 1 .. Len(last'.calls) : last'.calls[i].id # b
                /\ \A c \in CallsNamed(last'.calls, "SvcUpdate") :
                        c.ip # NoIP => ~PrefixContains(blocks[b].cidr, c.ip)
           /\ (last'.op = "Get" /\ last'.exists) => Bound(blocks, svcIP, last'.svc)
      ]_vars

\* EnsureLoadBalancer created a block for its service while the second
\* cluster had an attached block for a service of the same namespace and name
C21_Witness ==
    /\ last.op = "Ensure"
    /\ last.err = ""
    /\ \E n \in CallsNamed(last.calls, "IpBlocksPost") : n.ok
    /\ \E b \in OtherBlocks(blocks) :
        /\ deleteTag \notin DOMAIN blocks[b].tags
        /\ blocks[b].tags[serviceNamespaceTag] = last.svc.ns
        /\ blocks[b].tags[serviceNameTag] = last.svc.name
        /\ blocks[b].status = "assigned"

\* the positions of the calls named c in the sequence of calls of an operation
Positions(calls, c) == { i \in 1 .. Len(calls) : calls[i].call = c }

\* C22: a block that EnsureLoadBalancer creates carries, from its creation on
\* and whatever happens later in the call, exactly the usage marker, the
\* cluster id and the namespace and name of the requesting service, and no
\* delete marker; the create request precedes the attach and the recording of
\* the address; and the active-block query for that service returns exactly
\* this block.
C22_CreatedBlockIsTagged ==
    [][ last'.op = "Ensure"
        => \A n \in CallsNamed(last'.calls, "IpBlocksPost") :
            n.ok
            => /\ n.id \notin DOMAIN blocks
               /\ n.id \in DOMAIN blocks'
               /\ DOMAIN blocks'[n.id].tags
                    = {pnapTag, "cluster", serviceNamespaceTag, serviceNameTag}
               /\ blocks'[n.id].tags[pnapTag] = pnapValue
               /\ blocks'[n.id].tags["cluster"] = clusterID
               /\ blocks'[n.id].tags[serviceNamespaceTag] = last'.svc.ns
               /\ blocks'[n.id].tags[serviceNameTag] = last'.svc.name
               /\ getIPBlocks(blocks', last'.svc.ns, last'.svc.name, TRUE, FALSE, FALSE).ids
                    = {n.id}
               /\ \A i \in Positions(last'.calls, "IpBlocksPost") :
                    \A j \in Positions(last'.calls, "Attach")
                              \cup Positions(last'.calls, "SvcUpdate")
                              \cup Positions(last'.calls, "AddService") : i < j
      ]_vars

\* EnsureLoadBalancer created a block and failed to attach it: the block is
\* in the store, tagged for the service and unassigned
C22_Witness ==
    /\ last.op = "Ensure"
    /\ last.err = "unable to assign block to network"
    /\ \E n \in CallsNamed(last.calls, "IpBlocksPost") :
        /\ n.ok
        /\ ActiveBlocksOf(blocks, last.svc) = {n.id}
        /\ blocks[n.id].status = "unassigned"

\* the names in a sequence of tag names
Names(seq) == { seq[i] : i \in 1 .. Len(seq) }

\* the tag names of the create requests among the calls of an operation
Created(calls) == { c.tag : c \in CallsNamed(calls, "TagsPost") }

\* C23: an ensureTags call issues create requests only for required names
\* that are not declared, each at most once; when it succeeds it has created
\* exactly the required names that were missing and every required name is
\* declared; and a call that directly follows a successful call issues no
\* create request.
C23_CreatesExactlyMissing ==
    [][ last'.op = "ensureTags"
        => /\ Created(last'.calls) \subseteq Names(requiredTags) \ declaredTags
           /\ Cardinality(Created(last'.calls)) = Len(last'.calls)
           /\ declaredTags \subseteq declaredTags'
           /\ last'.err = ""
                => /\ Created(last'.calls) = Names(requiredTags) \ declaredTags
                   /\ \A c \in CallsNamed(last'.calls, "TagsPost") : c.ok
                   /\ Names(requiredTags) \subseteq declaredTags'
           /\ (last.op = "ensureTags" /\ last.err = "") => last'.calls = << >>
      ]_vars

\* ensureTags succeeded after creating some of the required names, the others
\* having been declared before
C23_Witness ==
    /\ last.op = "ensureTags"
    /\ last.err = ""
    /\ Cardinality(Created(last.calls)) \in 1 .. 4
    /\ Names(requiredTags) \subseteq declaredTags

\* C24: when a tag creation inside ensureTags fails, the call returns an
\* error, the failed request is the last one it issued, the names created
\* before it stay declared and the failed name is not declared by that call;
\* a call that directly follows the failed one issues no request for the names
\* created earlier, fails only if one of its own remote calls fails, and when
\* it succeeds has created exactly the names still missing.
C24_PartialCreationSurvives ==
    [][ last'.op = "ensureTags"
        => /\ (\E c \in CallsNamed(last'.calls, "TagsPost") : ~c.ok)
                => /\ last'.err = "unable to create tag"
                   /\ ~last'.calls[Len(last'.calls)].ok
                   /\ \A i \in 1 .. Len(last'.calls) - 1 : last'.calls[i].ok
                   /\ declaredTags'
                        = declaredTags \cup { c.tag : c \in { d \in CallsNamed(last'.calls, "TagsPost") : d.ok } }
           /\ (last.op = "ensureTags" /\ last.err = "unable to create tag")
                => /\ \A c \in CallsNamed(last.calls, "TagsPost") :
                        c.ok => c.tag \in declaredTags /\ c.tag \notin Created(last'.calls)
                   /\ last'.err = "unable to create tag"
                        => \E c \in CallsNamed(last'.calls, "TagsPost") : ~c.ok
                   /\ last'.err = ""
                        => /\ Created(last'.calls) = Names(requiredTags) \ declaredTags
                           /\ Names(requiredTags) \subseteq declaredTags'
      ]_vars

\* the creation of the third of five tags failed: the first two are declared
C24_Witness ==
    /\ last.op = "ensureTags"
    /\ last.err = "unable to create tag"
    /\ Len(last.calls) = 3
    /\ last.calls[1].ok /\ last.calls[2].ok /\ ~last.calls[3].ok
    /\ declaredTags = {last.calls[1].tag, last.calls[2].tag}

\* configuration strings that are no URI
UnparsableConfigs == {"://net1", "kube-vip://[net1"}

\* configuration strings that are a URI without host
NoHostConfigs == {"kube-vip://", "kube-vip:///net1", "net1"}

\* C25: initialization with a non-empty load-balancer configuration returns an
\* error and starts no reaper when the location is empty, when the
\* configuration is no URI, or when the URI has no host; and the reaper ticks
\* only after an initialization that started it.
C25_BadConfigRefused ==
    [][ /\ (/\ last'.op = "newLoadBalancers"
            /\ lb.config # ""
            /\ \/ lb.location = ""
               \/ lb.config \in UnparsableConfigs
               \/ lb.config \in NoHostConfigs)
            => /\ last'.err # ""
               /\ ~lb'.started
               /\ lb'.network = ""
        /\ last'.op = "GC" => lb.started /\ lb.network # "" /\ lb.location # ""
      ]_vars

\* initialization refused a configuration whose URI has no host, the location
\* being set and the namespace read succeeding
C25_Witness ==
    /\ last.op = "newLoadBalancers"
    /\ last.err = "invalid config: no public network provided"
    /\ lb.location # ""
    /\ lb.config \in NoHostConfigs
    /\ ~lb.started

\* C26: the location of the block created for a service is the globally
\* configured location if that is set and otherwise the location named by the
\* service's ip-location annotation; the error for a missing location results
\* only when the global location is unset and no service names a location.
C26_LocationRule ==
    [][ /\ (last'.op = "newLoadBalancers"
            /\ last'.err = "no location specified, cannot proceed")
            => /\ lb.location = ""
               /\ \A s \in Services : ipLocation(s) = ""
        /\ (last'.op = "Ensure" /\ CallsNamed(last'.calls, "IpBlocksPost") # {})
            => /\ lb.location # "" => lb.location \in Locations
               /\ lb.location = "" => ipLocation(last'.svc) # ""
      ]_vars

\* the network addresses of the /29 ranges of 10.0.0.0/24 and of the last
\* ranges before a carry into the third and the second octet
TestNetworks ==
    { <<10, 0, 0, 8 * k>> : k \in 0 .. 31 } \cup { <<10, 0, 255, 248>>, <<10, 255, 255, 248>> }

\* C27: the address EnsureLoadBalancer derives from a block, and writes to the
\* service, is the network address of the block's /29 CIDR plus 2: the third
\* address of the block, after the network address and the gateway; and two
\* steps of Next from the network address of any /29 range give that address.
C27_ThirdAddressOfBlock ==
    [][ /\ last'.op = "Ensure"
            => \A c \in CallsNamed(last'.calls, "SvcUpdate") :
                \E b \in ActiveBlocksOf(blocks', last'.svc) :
                    LET n == blocks'[b].cidr.addr
                    IN  /\ blocks'[b].cidr.bits = 29
                        /\ c.ip = <<n[1], n[2], n[3], n[4] + 2>>
                        /\ PrefixContains(blocks'[b].cidr, c.ip)
                        /\ Cardinality({ k \in 0 .. 7 : n[4] + k < c.ip[4] }) = 2
        /\ last.op = "Init"
            => \A n \in TestNetworks :
                AddrNext(AddrNext(n)) = <<n[1], n[2], n[3], n[4] + 2>>
      ]_vars

\* EnsureLoadBalancer wrote the third address of the second range,
\* 10.0.0.8/29, to its service
C27_Witness ==
    /\ last.op = "Ensure"
    /\ \E c \in CallsNamed(last.calls, "SvcUpdate") : c.ok /\ c.ip = <<10, 0, 0, 10>>
    /\ \E b \in ActiveBlocksOf(blocks, last.svc) : blocks[b].cidr.addr = <<10, 0, 0, 8>>

\* C28: once a service has two or more active blocks, which two
\* EnsureLoadBalancer calls that are not serialized reach by each creating a
\* block after reading an empty list, every GetLoadBalancer call for it fails
\* when the service records an IP, every EnsureLoadBalancer call for it fails,
\* and no operation of the system takes an active block away from it: it
\* has two or more active blocks ever after.
C28_RaceIsNeverResolved ==
    [][ \A s \in Services :
            Cardinality(ActiveBlocksOf(blocks, s)) >= 2
            => /\ ActiveBlocksOf(blocks, s) \subseteq ActiveBlocksOf(blocks', s)
               /\ (last'.op = "Get" /\ last'.svc = s /\ svcIP[s] # NoIP)
                    => last'.err # "" /\ ~last'.exists
               /\ (last'.op = "Ensure" /\ last'.svc = s)
                    => /\ last'.err # ""
                       /\ last'.calls = << >>
               /\ (last'.op = "EnsureDeleted" /\ last'.svc = s)
                    => CallsNamed(last'.calls, "TagsPut") = {}
      ]_vars

\* an EnsureLoadBalancer call that had read an empty list created a second
\* active block for a service that another call had given a block meanwhile
C28_Witness ==
    /\ last.op = "EnsureContinues"
    /\ \E n \in CallsNamed(last.calls, "IpBlocksPost") :
        /\ n.ok
        /\ n.id \in ActiveBlocksOf(blocks, last.svc)
    /\ Cardinality(ActiveBlocksOf(blocks, last.svc)) = 2

\* the server ids a provider ID can hold: pieces without a separator
PlainIds == { p \in ProviderIDs : p # << >> /\ \A i \in 1 .. Len(p) : p[i] # Sep }

\* the server ids a provider ID names: itself when it is a bare id, or the id
\* after phoenixnap://
NamedIds ==
    [p \in ProviderIDs |-> { id \in PlainIds : p \in { id, <<ProviderName, Sep>> \o id } }]

\* the provider IDs that name a provider other than phoenixnap
OtherProviderIDs ==
    { p \in ProviderIDs :
        \E i \in 2 .. Len(p) :
            /\ p[i] = Sep
            /\ \A j \in 1 .. i - 1 : p[j] # Sep
            /\ SubSeq(p, 1, i - 1) # <<ProviderName>> }

\* C29: when the servers API answers, InstanceExists returns (false, no
\* error) for a provider ID that names a server that does not exist and (true,
\* no error) for one that names an existing server, as phoenixnap://<id> or as
\* the bare <id>; it returns an error for the empty provider ID and for one
\* that names another provider. InstanceShutdown for an existing server returns
\* no error and true exactly when the server's status is powered-off.
C29_InstancesContract ==
    [][ LET c == lastInst'
            p == c.providerID
        IN  (servers' = servers /\ c.op \in {"InstanceExists", "InstanceShutdown"}) =>
            /\ (p = << >>) => c.err # ""
            /\ (p \in OtherProviderIDs) => c.err # ""
            /\ \A id \in NamedIds[p] :
                ~c.apiFailed =>
                    /\ (c.op = "InstanceExists" /\ id \notin DOMAIN servers)
                        => (~c.result /\ c.err = "")
                    /\ (c.op = "InstanceExists" /\ id \in DOMAIN servers)
                        => (c.result /\ c.err = "")
                    /\ (c.op = "InstanceShutdown" /\ id \in DOMAIN servers)
                        => /\ c.err = ""
                           /\ c.result <=> (servers[id] = InstanceStatusPoweredOff)
      ]_vars

\* InstanceShutdown reported a powered-off server named by its bare id
C29_Witness ==
    /\ lastInst.op = "InstanceShutdown"
    /\ lastInst.providerID = <<"s1">>
    /\ lastInst.result
    /\ lastInst.err = ""

\* the blocks the pass under way was handed by its list call
Listed(sw) == { sw.order[k] : k \in 1 .. Len(sw.order) }

\* C30: with the reconcile operations running between the remote calls of the
\* reaper, every delete and detach call of the reaper names a block that its
\* list call returned and that does not stand in the store without the delete
\* marker; every delete call names a block listed as "unassigned" in the same
\* pass; and a step of the reaper leaves the active block of a Bound service
\* as it was.
C30_SweepTouchesMarkedOnly ==
    [][ (last'.op = "GC" /\ sweep' # sweep) =>
            /\ \A c \in CallsNamed(last'.calls, "Delete") \cup CallsNamed(last'.calls, "Detach") :
                /\ c.id \in Listed(sweep)
                /\ c.id \notin DOMAIN blocks \ MarkedBlocks(blocks)
            /\ \A c \in CallsNamed(last'.calls, "Delete") :
                sweep.snapshot[c.id] = "unassigned"
            /\ \A s \in Services :
                Bound(blocks, svcIP, s) =>
                    \A b \in ActiveBlocksOf(blocks, s) :
                        b \in DOMAIN blocks' /\ blocks'[b] = blocks[b]
      ]_vars

\* the reaper detached a marked block while another service was Bound to its
\* own active block
C30_Witness ==
    /\ last.op = "GC"
    /\ \E c \in CallsNamed(last.calls, "Detach") : c.ok
    /\ \E s \in Services : Bound(blocks, svcIP, s)

\* C31: when an EnsureLoadBalancer call returns success, the service is Bound:
\* the IP recorded on the service lies inside the CIDR of its single active
\* block, which is assigned to the configured network. This holds also for a
\* service that entered the call recording an IP and having no active block.
C31_SuccessMeansBound ==
    [][ (last'.op = "Ensure" /\ last'.err = "")
        => Bound(blocks', svcIP', last'.svc) ]_vars

\* the errors of an EnsureLoadBalancer call that found the block of its service
\* and met the failure of a remote call
RetryFailures == {"list failed", "unable to assign block to network", "failed to add service"}

\* C32: an EnsureLoadBalancer call that follows, for the same service, a call
\* that failed after it had created a block creates no block; it fails only by
\* the failure of a remote call; it issues the attach of that block when the
\* block is unattached and the list calls went through; and when it returns
\* success the service is Bound, the IP having been written by this call when
\* none was recorded.
C32_RetryReusesBlock ==
    [][ (/\ last.op = "Ensure" /\ last.err # ""
         /\ last'.op = "Ensure" /\ last'.svc = last.svc)
        => \A p \in CallsNamed(last.calls, "IpBlocksPost") :
            p.ok =>
                /\ CallsNamed(last'.calls, "IpBlocksPost") = {}
                /\ last'.err \in RetryFailures \cup {""}
                /\ (blocks[p.id].status = "unassigned" /\ last'.err # "list failed")
                    => \E c \in CallsNamed(last'.calls, "Attach") : c.id = p.id
                /\ last'.err = ""
                    => /\ Bound(blocks', svcIP', last'.svc)
                       /\ svcIP[last.svc] = NoIP
                            => \E c \in CallsNamed(last'.calls, "SvcUpdate") :
                                    c.ok /\ c.ip = svcIP'[last.svc]
      ]_vars

\* the errors of an EnsureLoadBalancer call that failed in the lookup of the
\* block, the declaration of the tags, the creation of the block or its attach
EarlyFailures ==
    {"list failed", "more than one block found", "unable to ensure tags exist",
     "unable to create new IP block", "unable to assign block to network"}

\* C33: in an EnsureLoadBalancer call the write of the IP to the service comes
\* after every block creation and attach call of the call, and happens only
\* when the service has a single active block that was assigned to the
\* configured network before the call or by an attach call of it that
\* succeeded; AddService is called only after every write of the call, none
\* of which failed, and only for a service that records an IP. A call that
\* fails in the block lookup, the tag declaration, the block creation or the
\* attach leaves the recorded IP as it was and does not call AddService.
C33_WriteThenAnnounce ==
    [][ last'.op = "Ensure" =>
        LET calls == last'.calls
            s == last'.svc
            upd == Positions(calls, "SvcUpdate")
            ann == Positions(calls, "AddService")
            att == Positions(calls, "Attach")
            post == Positions(calls, "IpBlocksPost")
        IN  /\ \A u \in upd :
                /\ \A i \in att \cup post : i < u /\ calls[i].ok
                /\ Cardinality(ActiveBlocksOf(blocks', s)) = 1
                /\ \A b \in ActiveBlocksOf(blocks', s) :
                    /\ blocks'[b].status = "assigned"
                    /\ blocks'[b].assignedResourceId = network
                    /\ \/ b \in DOMAIN blocks /\ blocks[b].status = "assigned"
                       \/ \E i \in att : calls[i].id = b /\ calls[i].ok
            /\ \A a \in ann :
                /\ \A u \in upd : u < a /\ calls[u].ok
                /\ svcIP'[s] # NoIP
            /\ (svcIP'[s] # svcIP[s]) => \E u \in upd : calls[u].ok /\ calls[u].ip = svcIP'[s]
            /\ last'.err \in EarlyFailures => (svcIP' = svcIP /\ ann = {})
      ]_vars

\* an EnsureLoadBalancer call created a block, attached it, wrote the IP and
\* called the announcer
C33_Witness ==
    /\ last.op = "Ensure"
    /\ last.err = ""
    /\ \E i, j, k, l \in 1 .. Len(last.calls) :
        /\ i < j /\ j < k /\ k < l
        /\ last.calls[i].call = "IpBlocksPost"
        /\ last.calls[j].call = "Attach"
        /\ last.calls[k].call = "SvcUpdate"
        /\ last.calls[l].call = "AddService"

\* C34: a coordinator that initialization returned has an announcer backend:
\* a configuration whose scheme names no known implementation is refused or
\* given a backend that does nothing, and the backend is never left absent.
C34_AnnouncerPresent ==
    lb.started => lb.implementor # ""

\* C35: a GetLoadBalancer, EnsureLoadBalancer or EnsureLoadBalancerDeleted call
\* for a service leaves the active blocks of every other service of the
\* cluster as they were, names none of them in a remote call, and neither
\* returns nor records an address inside one of them; and two different
\* services that are both Bound record addresses that lie in no common block.
C35_ServicesKeepApart ==
    [][ /\ last'.op \in {"Get", "Ensure", "EnsureDeleted"} =>
            \A t \in ServicesAcross \ {last'.svc} :
                \A b \in ActiveBlocksOf(blocks, t) :
                    /\ b \in DOMAIN blocks' /\ blocks'[b] = blocks[b]
                    /\ \A i \in 1 .. Len(last'.calls) : last'.calls[i].id # b
                    /\ last'.ip # NoIP => ~PrefixContains(blocks[b].cidr, last'.ip)
                    /\ svcIP'[last'.svc] \notin {NoIP, svcIP[last'.svc]}
                        => ~PrefixContains(blocks[b].cidr, svcIP'[last'.svc])
        /\ LET bound == { s \in ServicesAcross : Bound(blocks', svcIP', s) }
           IN  \A s, t \in bound :
                s # t
                => /\ ActiveBlocksOf(blocks', s) \cap ActiveBlocksOf(blocks', t) = {}
                   /\ ~\E b \in DOMAIN blocks' :
                        /\ PrefixContains(blocks'[b].cidr, svcIP'[s])
                        /\ PrefixContains(blocks'[b].cidr, svcIP'[t])
      ]_vars

\* the two services named svc-a, of two namespaces, are both Bound
C35_Witness ==
    /\ last.op = "Ensure"
    /\ last.err = ""
    /\ \A s \in ServicesAcross : s.name = "svc-a" => Bound(blocks, svcIP, s)

\* the operations of the announcer backend (interface loadbalancers.LB)
AnnouncerCalls == {"AddService", "RemoveService", "UpdateService"}

\* C36: an EnsureLoadBalancerDeleted call and a tick of the reaper call no
\* operation of the announcer: after a service was handed to the announcer by
\* AddService, its deletion never leads to RemoveService.
C36_DeletionSkipsAnnouncer ==
    [][ last'.op \in {"EnsureDeleted", "GC"}
        => \A i \in 1 .. Len(last'.calls) : last'.calls[i].call \notin AnnouncerCalls ]_vars

\* the reaper deleted the marked block of a service whose recorded IP
\* EnsureLoadBalancerDeleted had cleared
C36_Witness ==
    /\ last.op = "GC"
    /\ \E c \in CallsNamed(last.calls, "Delete") : c.ok
    /\ \A s \in Services : svcIP[s] = NoIP

\* block b holds the tag of service s with the address that s records
Placed(store, ips, b, s) ==
    /\ serviceTag(s) \in DOMAIN store[b].tags
    /\ ips[s] # NoIP
    /\ store[b].tags[serviceTag(s)] = AddrString(ips[s])

\* C37: in the coordinator that shares blocks, when EnsureLoadBalancer returns
\* success for a service whose tag stands in a block, the tag holds an address
\* different from the one held by the tag of every other service that is
\* placed in that block.
C37_SharedAddressesDiffer ==
    [][ (last'.op = "Ensure" /\ last'.err = "") =>
            \A b \in DOMAIN blocks' :
                \A t \in ServicesAcross \ {last'.svc} :
                    (/\ serviceTag(last'.svc) \in DOMAIN blocks'[b].tags
                     /\ Placed(blocks', svcIP', b, t))
                    => blocks'[b].tags[serviceTag(last'.svc)] # blocks'[b].tags[serviceTag(t)]
      ]_vars

====
